---- MODULE Spec2Model ----
(***************************************************************************)
(* Authentication / token-lifecycle flow of the marketplace backend:       *)
(* AuthService (backend/src/services/authService.ts) over the Prisma       *)
(* tables users, refresh_tokens and provider_accounts, with the token      *)
(* codec of backend/src/utils/jwt.ts.                                      *)
(*                                                                         *)
(* Every AuthService method is an async function.  A request is a process  *)
(* p; one step of p is one awaited database call together with the         *)
(* synchronous code that follows it up to the next awaited database call   *)
(* (Node runs that code without interruption).  Awaits that touch no       *)
(* shared state (bcrypt, the calls to Google) are folded into the step     *)
(* that precedes them.  Time is counted in minutes.                        *)
(***************************************************************************)
EXTENDS Integers, Sequences, FiniteSets, TLC

VARIABLES
    users,            \* table users: sequence of rows, id = index
    refreshTokens,    \* table refresh_tokens: sequence of rows, id = index
    providerAccounts, \* table provider_accounts: sequence of rows, id = index
    now,              \* Date.now(), in minutes
    ticks,            \* number of clock advances so far
    nextJti,          \* uuidv4(): the next unused token identifier
    cfg,              \* the run's configuration: ttlDays = REFRESH_TOKEN_TTL_DAYS as
                      \* parsed from the environment at load, maxInFlight = how many
                      \* requests overlap, tokenCap = how many refresh_tokens rows,
                      \* history = whether rotated and forcedOut are recorded,
                      \* accessSecret, refreshSecret = JWT_ACCESS_SECRET and
                      \* JWT_REFRESH_SECRET as read from the environment at load,
                      \* nodeEnv = process.env.NODE_ENV
    multiStopOrders,  \* table multi_stop_orders with the stops of each order
    orders,           \* table orders: sequence of rows, id = index
    stores,           \* table stores: rating and totalRatings per store
    oauth,            \* history: the OAuth states generateGoogleAuthUrl has issued
                      \* and those a googleAuth() that returned has accepted
    minted,           \* every token generateTokenPair has returned
    regOk,            \* history: successful register calls per stored email
    rotated,          \* history: <<id of the row replaced, token issued in its place>>
                      \* for every refreshToken() that returned
    forcedOut,        \* history: ids of the rows a logoutAll() found active
    pc,               \* per request: the awaited call it is suspended on
    loc               \* per request: arguments, locals, result

vars == <<users, refreshTokens, providerAccounts, now, ticks, nextJti, cfg,
          multiStopOrders, orders, stores, oauth,
          minted, regOk, rotated, forcedOut, pc, loc>>

dbvars == <<users, refreshTokens, providerAccounts>>
authvars == <<dbvars, now, ticks, nextJti, cfg, oauth, minted, regOk, rotated, forcedOut>>
shopvars == <<multiStopOrders, orders, stores>>

-----------------------------------------------------------------------------
(* Bounds of the model *)

MaxUsers == 2
MaxTokens == 2
MaxSessionTokens == 3
MaxTicks == 2
MaxStates == 1
MaxPlans == 1
MaxOrders == 2
LongRefreshTtlDays == 31

(* Program constants *)

ACCESS_TOKEN_TTL_MIN == 15
REFRESH_TOKEN_TTL_DAYS == 30
RECORD_TTL_DAYS == 30
MinutesPerDay == 24 * 60

Procs == {"p1", "p2"}

\* req.user.id of the customers who call the order routes; the stores they order from
Customers == {1, 2}
StoreIds == {1}

UserRole == {"CUSTOMER", "MERCHANT", "RIDER"}
InputRoles == {"CUSTOMER", "MERCHANT"}
RawEmails == {"a@x.io", "A@x.io", "b@x.io"}
RegisterPasswords == {"pw1"}
LoginPasswords == {"pw1", "pw2"}

\* SQL NULL / JavaScript undefined, per column type
Null == "null"
NullTime == 0 - 1
NullHash == <<"null", "">>
NullRating == 0 - 1

(* The messages of the errors AuthService throws *)
ErrDuplicateUser == "User with this email already exists"
ErrInvalidCredentials == "Invalid email or password"
ErrInvalidRole == "Invalid role for this account"
ErrOAuthRequired == "This account requires Google OAuth login"
ErrInvalidRefreshToken == "Invalid refresh token"
ErrRefreshExpired == "Refresh token expired"
ErrUniqueConstraint == "P2002 Unique constraint failed"
ErrStateSyntax == "SyntaxError: Unexpected token in JSON"
ErrGoogleExchange == "Failed to exchange authorization code"
ErrGoogleNoAccessToken == "Failed to get access token from Google"
ErrGoogleUserInfo == "Failed to get user information from Google"
ErrGoogleEmailUnverified == "Google email must be verified"
ErrGoogleIncomplete == "Incomplete user information from Google"
ErrUserNotFound == "User not found"
ErrInvalidAccessToken == "Invalid access token"
ErrGoogleNoId == "Unable to get unique identifier from Google"

-----------------------------------------------------------------------------
(* Pure helpers *)

ToLowerCase_Identity(e) == e

\* String.prototype.toLowerCase on the e-mail addresses of the model
ToLowerCase(e) == IF e = "A@x.io" THEN "a@x.io" ELSE e

\* bcrypt.hash(password, 12)
BcryptHash(pw) == <<"bcrypt", pw>>

BcryptCompare_Always(pw, h) == TRUE

\* bcrypt.compare(password, hash)
BcryptCompare(pw, h) == h = BcryptHash(pw)

NoToken == [type |-> "none", userId |-> 0, email |-> "", role |-> "",
            iat |-> 0, exp |-> 0, jti |-> 0, key |-> "none"]

\* process.env.JWT_ACCESS_SECRET, process.env.JWT_REFRESH_SECRET
JWT_ACCESS_SECRET == cfg.accessSecret
JWT_REFRESH_SECRET == cfg.refreshSecret

\* generateAccessToken: payload signed with JWT_ACCESS_SECRET
generateAccessToken(uid, u, t) ==
    [type |-> "access", userId |-> uid, email |-> u.email, role |-> u.role,
     iat |-> t, exp |-> t + ACCESS_TOKEN_TTL_MIN, jti |-> 0, key |-> JWT_ACCESS_SECRET]

\* generateRefreshToken: payload signed with JWT_REFRESH_SECRET, jwtid uuidv4()
generateRefreshToken(uid, u, t, jti, ttl) ==
    [type |-> "refresh", userId |-> uid, email |-> u.email, role |-> u.role,
     iat |-> t, exp |-> t + ttl * MinutesPerDay, jti |-> jti, key |-> JWT_REFRESH_SECRET]

verifyAccessToken_NoTypeCheck(tok, t) ==
    /\ tok.key = JWT_ACCESS_SECRET
    /\ t < tok.exp

\* jwt.verify(token, JWT_ACCESS_SECRET) and the type check; TRUE = no throw
verifyAccessToken(tok, t) ==
    /\ tok.key = JWT_ACCESS_SECRET
    /\ t < tok.exp
    /\ tok.type = "access"

\* the JWTPayload a verify function returns
PayloadOf(tok) ==
    [userId |-> tok.userId, email |-> tok.email, role |-> tok.role, type |-> tok.type]
NoPayload == [userId |-> 0, email |-> "", role |-> "", type |-> "none"]

\* jwt.verify(token, JWT_REFRESH_SECRET) and the type check; TRUE = no throw.
\* jsonwebtoken rejects a token once the clock has reached its exp.
verifyRefreshToken(tok, t) ==
    /\ tok.key = JWT_REFRESH_SECRET
    /\ t < tok.exp
    /\ tok.type = "refresh"

hashRefreshToken_Identity(tok) == tok

\* crypto.createHash('sha256').update(token).digest('hex')
hashRefreshToken(tok) == [sha256 |-> tok]

\* expiresAt: new Date(Date.now() + 30 * 24 * 60 * 60 * 1000)
RecordExpiry(t) == t + RECORD_TTL_DAYS * MinutesPerDay

\* prisma.user.findUnique({ where: { email } }): the row id, 0 when none
FindUserByEmail(us, e) ==
    IF \E i \in 1..Len(us) : us[i].email = e
    THEN CHOOSE i \in 1..Len(us) : us[i].email = e
    ELSE 0

\* prisma.refreshToken.findUnique({ where: { tokenHash } }): the row id, 0 when none
FindTokenByHash(rts, h) ==
    IF \E i \in 1..Len(rts) : rts[i].tokenHash = h
    THEN CHOOSE i \in 1..Len(rts) : rts[i].tokenHash = h
    ELSE 0

\* the row a create of refresh_tokens inserts (isRevoked defaults to false)
NewTokenRow(uid, tok) ==
    [userId |-> uid, tokenHash |-> hashRefreshToken(tok), isRevoked |-> FALSE,
     expiresAt |-> RecordExpiry(tok.iat)]

RevokeRow_Toggle(r) == [r EXCEPT !.isRevoked = ~@]

\* data: { isRevoked: true } applied to one row
RevokeRow(r) == [r EXCEPT !.isRevoked = TRUE]

RevokeByHash_WholeUser(rts, h) ==
    [i \in 1..Len(rts) |->
        IF \E j \in 1..Len(rts) : rts[j].tokenHash = h /\ rts[j].userId = rts[i].userId
        THEN [rts[i] EXCEPT !.isRevoked = TRUE] ELSE rts[i]]

RevokeByHash_All(rts, h) == [i \in 1..Len(rts) |-> RevokeRow(rts[i])]

\* prisma.refreshToken.updateMany({ where: { tokenHash }, data: { isRevoked: true } })
RevokeByHash(rts, h) ==
    [i \in 1..Len(rts) |-> IF rts[i].tokenHash = h THEN RevokeRow(rts[i]) ELSE rts[i]]

RevokeByUser_FirstOnly(rts, uid) ==
    [i \in 1..Len(rts) |->
        IF rts[i].userId = uid /\ \A j \in 1..(i - 1) : rts[j].userId # uid
        THEN RevokeRow(rts[i]) ELSE rts[i]]

\* prisma.refreshToken.updateMany({ where: { userId }, data: { isRevoked: true } })
RevokeByUser(rts, uid) ==
    [i \in 1..Len(rts) |-> IF rts[i].userId = uid THEN RevokeRow(rts[i]) ELSE rts[i]]

RevokeById_Skipped(rts, id) == rts

\* prisma.refreshToken.update({ where: { id }, data: { isRevoked: true } })
RevokeById(rts, id) == [rts EXCEPT ![id] = RevokeRow(rts[id])]

RefreshRowError_NoExpiry(rts, rid, t) ==
    IF rid = 0 \/ rts[rid].isRevoked THEN ErrInvalidRefreshToken ELSE ""

\* the refresh token's row check of refreshToken(): "" when it passes
RefreshRowError(rts, rid, t) ==
    IF rid = 0 \/ rts[rid].isRevoked THEN ErrInvalidRefreshToken
    ELSE IF rts[rid].expiresAt < t THEN ErrRefreshExpired
    ELSE ""

LoginError_NoOAuthCheck(us, uid, pw, role) ==
    IF uid = 0 THEN ErrInvalidCredentials
    ELSE IF us[uid].role # role THEN ErrInvalidRole
    ELSE IF ~BcryptCompare(pw, us[uid].passwordHash) THEN ErrInvalidCredentials
    ELSE ""

\* the checks of login() on the row found: "" when they all pass
LoginError(us, uid, pw, role) ==
    IF uid = 0 THEN ErrInvalidCredentials
    ELSE IF us[uid].role # role THEN ErrInvalidRole
    ELSE IF us[uid].passwordHash = NullHash THEN ErrOAuthRequired
    ELSE IF ~BcryptCompare(pw, us[uid].passwordHash) THEN ErrInvalidCredentials
    ELSE ""

-----------------------------------------------------------------------------
(* Requests *)

\* no users row read yet; nothing returned yet
NoUser == [email |-> "", passwordHash |-> NullHash, role |-> "",
           emailVerified |-> FALSE, lastLoginAt |-> NullTime]
NoResult == [id |-> 0]

UserView_WholeRow(uid, row) ==
    [id |-> uid, email |-> row.email, passwordHash |-> row.passwordHash,
     role |-> row.role, emailVerified |-> row.emailVerified,
     lastLoginAt |-> row.lastLoginAt]

\* user: { id: user.id, email: user.email, ... } as every operation returns it
UserView(uid, row) ==
    [id |-> uid, email |-> row.email, role |-> row.role,
     emailVerified |-> row.emailVerified, lastLoginAt |-> row.lastLoginAt]

\* no error passed to next(); no response sent
NoError == [class |-> "none", name |-> "", code |-> Null, statusCode |-> 0,
            message |-> [text |-> ""], stack |-> ""]
NoResponse == [status |-> 0]

\* a store whose orders carry no rating: sum of the ratings and their number
NoRatings == [sum |-> 0, totalRatings |-> 0]

\* a request body with neither name nor stops
NoBody == [name |-> Null, stops |-> <<>>]

IdleLoc == [op |-> "none", email |-> "", password |-> "", role |-> "",
            token |-> NoToken, uid |-> 0, rid |-> 0,
            newTok |-> NoToken, access |-> NoToken,
            status |-> "none", error |-> "",
            sub |-> "", gtok |-> "", aid |-> 0,
            uw |-> 0, tw |-> 0, aw |-> 0, pre |-> "none",
            payload |-> NoPayload, user |-> NoUser, result |-> NoResult,
            verified |-> "none", nonce |-> 0, statePre |-> "none",
            boundary |-> "none", racing |-> 0, tokensOut |-> {},
            thrown |-> NoError, response |-> NoResponse,
            customer |-> 0, orderId |-> 0, body |-> NoBody,
            rating |-> 0, storeId |-> 0, found |-> NoRatings]

InFlight == {p \in Procs : pc[p] # "idle"}

\* requests in flight that may still insert a users row / a refresh_tokens row
UserCreators ==
    {p \in Procs : pc[p] \in {"reg_find", "reg_create", "g_find", "g_user_create"}}
TokenCreators ==
    {p \in Procs : pc[p] \in {"reg_find", "reg_create", "reg_token",
                              "login_find", "login_update", "login_token",
                              "ref_find", "ref_revoke", "ref_token",
                              "g_find", "g_account_create", "g_account_update",
                              "g_user_create", "g_update", "g_token"}}

\* request slots are interchangeable: "p2" is used only while "p1" is busy
CanStart(p) ==
    /\ pc[p] = "idle"
    /\ Cardinality(InFlight) < cfg.maxInFlight
    /\ p = "p2" => pc["p1"] # "idle"
RoomForUser == Len(users) + Cardinality(UserCreators) < MaxUsers
RoomForToken == Len(refreshTokens) + Cardinality(TokenCreators) < cfg.tokenCap

Fail(l, msg) == [l EXCEPT !.status = "err", !.error = msg]
\* return { success: true, user: { ... }, accessToken }; logout and logoutAll
\* return nothing.  tokensOut: the tokens in the object returned
Succeed(l) ==
    [l EXCEPT !.status = "ok",
              !.result = IF l.user = NoUser THEN NoResult ELSE UserView(l.uid, l.user),
              !.tokensOut = {l.access} \ {NoToken}]

\* the tables after the migration, with the orders placed so far; no store has
\* been rated
InitWithOrders(c, os) ==
    /\ cfg = c
    /\ multiStopOrders = <<>>
    /\ orders = os
    /\ stores = [s \in StoreIds |-> NoRatings]
    /\ users = <<>>
    /\ refreshTokens = <<>>
    /\ providerAccounts = <<>>
    /\ now = 0
    /\ ticks = 0
    /\ nextJti = 1
    /\ oauth = [issued |-> {}, accepted |-> {}]
    /\ minted = {}
    /\ rotated = {}
    /\ forcedOut = {}
    /\ regOk = [e \in RawEmails |-> 0]
    /\ pc = [p \in Procs |-> "idle"]
    /\ loc = [p \in Procs |-> IdleLoc]

\* no order has been placed
InitWith(c) == InitWithOrders(c, <<>>)

\* one request at a time, the default token lifetime
Init == InitWith([ttlDays |-> REFRESH_TOKEN_TTL_DAYS, maxInFlight |-> 1,
                  tokenCap |-> MaxTokens, history |-> FALSE,
                  accessSecret |-> "access", refreshSecret |-> "refresh",
              nodeEnv |-> "production"])

\* tokens a caller can present that this server's tables do not know: one signed
\* with the refresh secret (no row matches its hash) and one with a forged signature
ForeignTokens ==
    {[NoToken EXCEPT !.type = "refresh", !.userId = 1, !.jti = 0, !.key = k,
                     !.exp = 3650 * MinutesPerDay] : k \in {JWT_REFRESH_SECRET, "forged"}}

Presentable == minted \cup ForeignTokens

\* history: what is known about a presented token when the call starts
PreOf(tok) ==
    LET rid == FindTokenByHash(refreshTokens, hashRefreshToken(tok))
    IN IF rid = 0 THEN "unknown"
       ELSE IF rid \in {r[1] : r \in rotated} THEN "rotated"
       ELSE IF rid \in forcedOut THEN "forcedOut"
       ELSE IF refreshTokens[rid].isRevoked THEN "revoked"
       ELSE IF tok \in {r[2] : r \in rotated} THEN "successor"
       ELSE "active"

\* a refresh of tok that can no longer succeed (revocation and expiry are permanent)
RefreshCannotSucceed(tok) ==
    LET rid == FindTokenByHash(refreshTokens, hashRefreshToken(tok))
    IN \/ ~verifyRefreshToken(tok, now)
       \/ rid # 0 /\ refreshTokens[rid].isRevoked

\* history: the mailbox an address names, whatever its letter case
Mailbox(e) == IF e \in {"a@x.io", "A@x.io"} THEN "a" ELSE "b"

\* history: some users row already names the mailbox of this address
Registered(e) == \E i \in 1..Len(users) : Mailbox(users[i].email) = Mailbox(e)

-----------------------------------------------------------------------------
(* register: authService.ts 13-75 *)

StartRegister(p, email, pw, role) ==
    /\ CanStart(p)
    /\ \/ RoomForUser /\ RoomForToken
       \/ FindUserByEmail(users, ToLowerCase(email)) # 0
    /\ pc' = [pc EXCEPT ![p] = "reg_find"]
    /\ loc' = [loc EXCEPT ![p] =
                 [IdleLoc EXCEPT !.op = "register", !.email = email,
                                 !.password = pw, !.role = role,
                                 !.pre = IF Registered(email)
                                         THEN "registered" ELSE "fresh"]]
    /\ UNCHANGED <<dbvars, now, ticks, nextJti, cfg, shopvars, oauth, minted, regOk, rotated, forcedOut>>

\* findUnique by e-mail, the duplicate check, bcrypt.hash
RegFind(p) ==
    /\ pc[p] = "reg_find"
    /\ IF FindUserByEmail(users, ToLowerCase(loc[p].email)) # 0
       THEN /\ pc' = [pc EXCEPT ![p] = "done"]
            /\ loc' = [loc EXCEPT ![p] = Fail(@, ErrDuplicateUser)]
       ELSE /\ pc' = [pc EXCEPT ![p] = "reg_create"]
            /\ loc' = loc
    /\ UNCHANGED <<dbvars, now, ticks, nextJti, cfg, shopvars, oauth, minted, regOk, rotated, forcedOut>>

\* the users row register() inserts
RegisterRow(l) ==
    [email |-> ToLowerCase(l.email), passwordHash |-> BcryptHash(l.password),
     role |-> l.role, emailVerified |-> FALSE, lastLoginAt |-> NullTime]

\* user.create (users_email_key is unique), then generateTokenPair
RegCreate(p) ==
    /\ pc[p] = "reg_create"
    /\ IF FindUserByEmail(users, ToLowerCase(loc[p].email)) # 0
       THEN /\ pc' = [pc EXCEPT ![p] = "done"]
            /\ loc' = [loc EXCEPT ![p] = Fail(@, ErrUniqueConstraint)]
            /\ UNCHANGED <<users, nextJti, minted>>
       ELSE LET uid == Len(users) + 1
                row == RegisterRow(loc[p])
                tok == generateRefreshToken(uid, row, now, nextJti, cfg.ttlDays)
            IN /\ users' = Append(users, row)
               /\ nextJti' = nextJti + 1
               /\ minted' = minted \cup {tok, generateAccessToken(uid, row, now)}
               /\ pc' = [pc EXCEPT ![p] = "reg_token"]
               /\ loc' = [loc EXCEPT ![p].uid = uid, ![p].user = row, ![p].newTok = tok,
                                     ![p].access = generateAccessToken(uid, row, now),
                                     ![p].uw = @ + 1]
    /\ UNCHANGED <<refreshTokens, providerAccounts, now, ticks, cfg, shopvars, oauth, regOk, rotated, forcedOut>>

\* refreshToken.create, logAuth, return
RegToken(p) ==
    /\ pc[p] = "reg_token"
    /\ refreshTokens' = Append(refreshTokens, NewTokenRow(loc[p].uid, loc[p].newTok))
    /\ regOk' = [regOk EXCEPT ![ToLowerCase(loc[p].email)] = @ + 1]
    /\ pc' = [pc EXCEPT ![p] = "done"]
    /\ loc' = [loc EXCEPT ![p] = Succeed([@ EXCEPT !.tw = @ + 1])]
    /\ UNCHANGED <<users, providerAccounts, now, ticks, nextJti, cfg, shopvars, oauth, minted, rotated, forcedOut>>

-----------------------------------------------------------------------------
(* login: authService.ts 78-147 *)

StartLogin(p, email, pw, role) ==
    /\ CanStart(p)
    /\ LET uid == FindUserByEmail(users, ToLowerCase(email))
       IN \/ RoomForToken
          \/ uid # 0 /\ LoginError(users, uid, pw, role) # ""
    /\ pc' = [pc EXCEPT ![p] = "login_find"]
    /\ loc' = [loc EXCEPT ![p] =
                 [IdleLoc EXCEPT !.op = "login", !.email = email,
                                 !.password = pw, !.role = role]]
    /\ UNCHANGED <<dbvars, now, ticks, nextJti, cfg, shopvars, oauth, minted, regOk, rotated, forcedOut>>

\* LoginFind with the lastLoginAt update issued before the checks
LoginFind_TouchFirst(p) ==
    /\ pc[p] = "login_find"
    /\ LET uid == FindUserByEmail(users, ToLowerCase(loc[p].email))
           err == LoginError(users, uid, loc[p].password, loc[p].role)
       IN /\ users' = IF uid = 0 THEN users
                      ELSE [users EXCEPT ![uid].lastLoginAt = now + 1]
          /\ IF err # ""
             THEN /\ pc' = [pc EXCEPT ![p] = "done"]
                  /\ loc' = [loc EXCEPT ![p] = Fail([@ EXCEPT !.uid = uid], err)]
             ELSE /\ pc' = [pc EXCEPT ![p] = "login_update"]
                  /\ loc' = [loc EXCEPT ![p].uid = uid]
    /\ UNCHANGED <<refreshTokens, providerAccounts, now, ticks, nextJti, cfg, shopvars, oauth, minted,
                   regOk, rotated, forcedOut>>

\* findUnique by e-mail, the role / password-hash checks, bcrypt.compare
LoginFind(p) ==
    /\ pc[p] = "login_find"
    /\ LET uid == FindUserByEmail(users, ToLowerCase(loc[p].email))
           err == LoginError(users, uid, loc[p].password, loc[p].role)
       IN IF err # ""
          THEN /\ pc' = [pc EXCEPT ![p] = "done"]
               /\ loc' = [loc EXCEPT ![p] = Fail([@ EXCEPT !.uid = uid], err)]
          ELSE /\ pc' = [pc EXCEPT ![p] = "login_update"]
               /\ loc' = [loc EXCEPT ![p].uid = uid, ![p].user = users[uid]]
    /\ UNCHANGED <<dbvars, now, ticks, nextJti, cfg, shopvars, oauth, minted, regOk, rotated, forcedOut>>

\* data: { lastLoginAt: new Date() } applied to one users row
TouchLastLogin(us, uid, t) == [us EXCEPT ![uid].lastLoginAt = t]

\* user.update of lastLoginAt, then generateTokenPair
LoginUpdate(p) ==
    /\ pc[p] = "login_update"
    /\ LET uid == loc[p].uid
           tok == generateRefreshToken(uid, users[uid], now, nextJti, cfg.ttlDays)
       IN /\ users' = TouchLastLogin(users, uid, now)
          /\ nextJti' = nextJti + 1
          /\ minted' = minted \cup {tok, generateAccessToken(uid, users[uid], now)}
          /\ loc' = [loc EXCEPT ![p].newTok = tok,
                                ![p].access = generateAccessToken(uid, users[uid], now),
                                ![p].uw = @ + 1]
    /\ pc' = [pc EXCEPT ![p] = "login_token"]
    /\ UNCHANGED <<refreshTokens, providerAccounts, now, ticks, cfg, shopvars, oauth, regOk, rotated, forcedOut>>

\* refreshToken.create, logAuth, return
LoginToken(p) ==
    /\ pc[p] = "login_token"
    /\ refreshTokens' = Append(refreshTokens, NewTokenRow(loc[p].uid, loc[p].newTok))
    /\ pc' = [pc EXCEPT ![p] = "done"]
    /\ loc' = [loc EXCEPT ![p] = Succeed([@ EXCEPT !.tw = @ + 1])]
    /\ UNCHANGED <<users, providerAccounts, now, ticks, nextJti, cfg, shopvars, oauth, minted, regOk, rotated, forcedOut>>

-----------------------------------------------------------------------------
(* refreshToken: authService.ts 304-366 *)

\* the call up to its first await: verifyRefreshToken throws synchronously
StartRefresh(p, tok) ==
    /\ CanStart(p)
    /\ RoomForToken \/ RefreshCannotSucceed(tok)
    /\ LET l == [IdleLoc EXCEPT !.op = "refresh", !.token = tok, !.pre = PreOf(tok)]
       IN IF verifyRefreshToken(tok, now)
          THEN /\ pc' = [pc EXCEPT ![p] = "ref_find"]
               /\ loc' = [loc EXCEPT ![p] = l]
          ELSE /\ pc' = [pc EXCEPT ![p] = "done"]
               /\ loc' = [loc EXCEPT ![p] = Fail(l, ErrInvalidRefreshToken)]
    /\ UNCHANGED <<dbvars, now, ticks, nextJti, cfg, shopvars, oauth, minted, regOk, rotated, forcedOut>>

\* findUnique by tokenHash (include user), the revoked and expiry checks
RefFind(p) ==
    /\ pc[p] = "ref_find"
    /\ LET rid == FindTokenByHash(refreshTokens, hashRefreshToken(loc[p].token))
           err == RefreshRowError(refreshTokens, rid, now)
       IN IF err # ""
          THEN /\ pc' = [pc EXCEPT ![p] = "done"]
               /\ loc' = [loc EXCEPT ![p] = Fail([@ EXCEPT !.rid = rid], err)]
          ELSE /\ pc' = [pc EXCEPT ![p] = "ref_revoke"]
               /\ loc' = [loc EXCEPT ![p].rid = rid,
                                     ![p].uid = refreshTokens[rid].userId,
                                     ![p].user = users[refreshTokens[rid].userId]]
    /\ UNCHANGED <<dbvars, now, ticks, nextJti, cfg, shopvars, oauth, minted, regOk, rotated, forcedOut>>

\* refreshToken.update({ id }, isRevoked: true), then generateTokenPair(record.user)
RefRevoke(p) ==
    /\ pc[p] = "ref_revoke"
    /\ LET uid == loc[p].uid
           tok == generateRefreshToken(uid, users[uid], now, nextJti, cfg.ttlDays)
           rts == RevokeById(refreshTokens, loc[p].rid)
       IN /\ refreshTokens' = rts
          /\ nextJti' = nextJti + 1
          /\ minted' = minted \cup {tok, generateAccessToken(uid, users[uid], now)}
          /\ loc' = [loc EXCEPT ![p].newTok = tok,
                                ![p].access = generateAccessToken(uid, users[uid], now),
                                ![p].tw = @ + 1]
    /\ pc' = [pc EXCEPT ![p] = "ref_token"]
    /\ UNCHANGED <<users, providerAccounts, now, ticks, cfg, shopvars, oauth, regOk, rotated, forcedOut>>

\* refreshToken.create for the new token, logAuth, return
RefToken(p) ==
    /\ pc[p] = "ref_token"
    /\ refreshTokens' = Append(refreshTokens, NewTokenRow(loc[p].uid, loc[p].newTok))
    /\ rotated' = IF cfg.history
                  THEN rotated \cup {<<loc[p].rid, loc[p].newTok>>}
                  ELSE rotated
    /\ pc' = [pc EXCEPT ![p] = "done"]
    /\ loc' = [loc EXCEPT ![p] = Succeed([@ EXCEPT !.tw = @ + 1])]
    /\ UNCHANGED <<users, providerAccounts, now, ticks, nextJti, cfg, shopvars, oauth, minted, regOk, forcedOut>>

-----------------------------------------------------------------------------
(* logout and logoutAll: authService.ts 369-395 *)

\* rows whose isRevoked differs between two versions of the table
Changed(old, new) == Cardinality({i \in 1..Len(old) : old[i] # new[i]})

StartLogout(p, tok) ==
    /\ CanStart(p)
    /\ pc' = [pc EXCEPT ![p] = "logout_update"]
    /\ loc' = [loc EXCEPT ![p] =
                 [IdleLoc EXCEPT !.op = "logout", !.token = tok, !.pre = PreOf(tok)]]
    /\ UNCHANGED <<dbvars, now, ticks, nextJti, cfg, shopvars, oauth, minted, regOk, rotated, forcedOut>>

\* updateMany({ tokenHash }, isRevoked: true): no error when nothing matches
LogoutUpdate(p) ==
    /\ pc[p] = "logout_update"
    /\ LET rts == RevokeByHash(refreshTokens, hashRefreshToken(loc[p].token))
       IN /\ refreshTokens' = rts
          /\ loc' = [loc EXCEPT ![p] =
                       Succeed([@ EXCEPT !.tw = @ + Changed(refreshTokens, rts)])]
    /\ pc' = [pc EXCEPT ![p] = "done"]
    /\ UNCHANGED <<users, providerAccounts, now, ticks, nextJti, cfg, shopvars, oauth, minted, regOk, rotated, forcedOut>>

StartLogoutAll(p, uid) ==
    /\ CanStart(p)
    /\ pc' = [pc EXCEPT ![p] = "logoutall_update"]
    /\ loc' = [loc EXCEPT ![p] = [IdleLoc EXCEPT !.op = "logoutAll", !.uid = uid]]
    /\ UNCHANGED <<dbvars, now, ticks, nextJti, cfg, shopvars, oauth, minted, regOk, rotated, forcedOut>>

\* history: the row that a refreshToken() of user uid has read as active and not
\* yet replaced (0 when no such call is in flight)
RotationInFlight(uid) ==
    LET Q == {q \in Procs : pc[q] \in {"ref_revoke", "ref_token"} /\ loc[q].uid = uid}
    IN IF Q = {} THEN 0 ELSE loc[CHOOSE q \in Q : TRUE].rid

\* updateMany({ userId }, isRevoked: true), logAuth
LogoutAllUpdate(p) ==
    /\ pc[p] = "logoutall_update"
    /\ LET rts == RevokeByUser(refreshTokens, loc[p].uid)
       IN /\ refreshTokens' = rts
          /\ loc' = [loc EXCEPT ![p] =
                       Succeed([@ EXCEPT !.tw = @ + Changed(refreshTokens, rts),
                                         !.racing = RotationInFlight(loc[p].uid)])]
          /\ forcedOut' = IF cfg.history
                          THEN forcedOut \cup
                               {i \in 1..Len(refreshTokens) :
                                   /\ refreshTokens[i].userId = loc[p].uid
                                   /\ ~refreshTokens[i].isRevoked}
                          ELSE forcedOut
    /\ pc' = [pc EXCEPT ![p] = "done"]
    /\ UNCHANGED <<users, providerAccounts, now, ticks, nextJti, cfg, shopvars, oauth, minted, regOk, rotated>>

-----------------------------------------------------------------------------
(* GET /me: authenticate (part_013 25-70), then getProfile: authService.ts 398-422 *)

\* access tokens a caller can present that name no users row of this database
ForeignAccessTokens ==
    {[NoToken EXCEPT !.type = "access", !.userId = MaxUsers + 1, !.key = JWT_ACCESS_SECRET,
                     !.exp = 3650 * MinutesPerDay]}

\* authenticate: verifyAccessToken on the bearer token; what it or getProfile
\* throws is answered with 401
StartProfile(p, tok) ==
    /\ CanStart(p)
    /\ LET l == [IdleLoc EXCEPT !.op = "getProfile", !.token = tok]
       IN IF verifyAccessToken(tok, now)
          THEN /\ pc' = [pc EXCEPT ![p] = "auth_find"]
               /\ loc' = [loc EXCEPT ![p] = [l EXCEPT !.payload = PayloadOf(tok),
                                                      !.uid = tok.userId]]
          ELSE /\ pc' = [pc EXCEPT ![p] = "done"]
               /\ loc' = [loc EXCEPT ![p] = Fail(l, ErrInvalidAccessToken)]
    /\ UNCHANGED <<dbvars, now, ticks, nextJti, cfg, shopvars, oauth, minted, regOk, rotated, forcedOut>>

\* authenticate: authService.getProfile(payload.userId) fills req.user
AuthFind(p) ==
    /\ pc[p] = "auth_find"
    /\ IF loc[p].uid \in 1..Len(users)
       THEN /\ pc' = [pc EXCEPT ![p] = "prof_find"]
            /\ loc' = [loc EXCEPT ![p].user = users[loc[p].uid]]
       ELSE /\ pc' = [pc EXCEPT ![p] = "done"]
            /\ loc' = [loc EXCEPT ![p] = Fail(@, ErrUserNotFound)]
    /\ UNCHANGED <<dbvars, now, ticks, nextJti, cfg, shopvars, oauth, minted, regOk, rotated, forcedOut>>

\* the handler: authService.getProfile(req.user.id), user.findUnique by id
ProfFind(p) ==
    /\ pc[p] = "prof_find"
    /\ pc' = [pc EXCEPT ![p] = "done"]
    /\ IF loc[p].uid \in 1..Len(users)
       THEN loc' = [loc EXCEPT ![p] = Succeed([@ EXCEPT !.user = users[loc[p].uid]])]
       ELSE loc' = [loc EXCEPT ![p] = Fail(@, ErrUserNotFound)]
    /\ UNCHANGED <<dbvars, now, ticks, nextJti, cfg, shopvars, oauth, minted, regOk, rotated, forcedOut>>

-----------------------------------------------------------------------------
(* googleAuth: authService.ts 150-301 *)

\* generateGoogleAuthUrl: state = { role, nonce: uuidv4(), redirectUrl }; nothing
\* is stored, the state travels in the URL it returns
GenerateGoogleAuthUrl(role) ==
    /\ Cardinality(oauth.issued) < MaxStates
    /\ InFlight = {}
    /\ oauth' = [oauth EXCEPT !.issued = @ \cup {[role |-> role, nonce |-> nextJti]}]
    /\ nextJti' = nextJti + 1
    /\ UNCHANGED <<dbvars, now, ticks, cfg, shopvars, minted, regOk, rotated, forcedOut, pc, loc>>

\* the state parameter of a callback: a JSON text that parses to { role, nonce, ... },
\* issued by generateGoogleAuthUrl or written by the caller (nonce 0), or a text
\* that does not parse
OAuthStates ==
    oauth.issued \cup [role : InputRoles, nonce : {0}] \cup {[role |-> "malformed", nonce |-> 0]}

\* history: what the server has done with a state when a callback presents it
StatePreOf(st) ==
    IF st \in oauth.accepted THEN "accepted"
    ELSE IF st \in oauth.issued THEN "issued"
    ELSE "never issued"

\* what exchangeCodeForTokens does: throws, or returns tokens with/without access_token
ExchangeOutcomes == {"throw", "no_access_token", "ya29.a"}

\* what getGoogleUserInfo does: throws, or returns the provider's profile
GoogleProfiles ==
    {g \in [email : {"A@x.io", "b@x.io"}, email_verified : {"true", "false", "undefined"},
             name : {"n"}, sub : {"g1", "g2"}, id : {Null}] :
        g.email = "A@x.io" => g.sub = "g1"}
    \cup {[email |-> Null, email_verified |-> "true", name |-> "n", sub |-> "g1", id |-> Null],
          [email |-> "b@x.io", email_verified |-> "true", name |-> Null, sub |-> "g1", id |-> Null],
          [email |-> "b@x.io", email_verified |-> "true", name |-> "n", sub |-> Null, id |-> "g2"],
          [email |-> "b@x.io", email_verified |-> "true", name |-> "n", sub |-> Null, id |-> Null]}
InfoOutcomes == GoogleProfiles \cup {[email |-> "throw"]}

\* googleUserInfo.sub || googleUserInfo.id
ProviderAccountId(info) == IF info.sub # Null THEN info.sub ELSE info.id

\* lines 153-189: everything googleAuth does before it reads the database;
\* the error it throws there, "" when it goes on
GooglePreError_NoVerifiedCheck(st, exch, info) ==
    IF st.role = "malformed" THEN ErrStateSyntax
    ELSE IF exch = "throw" THEN ErrGoogleExchange
    ELSE IF exch = "no_access_token" THEN ErrGoogleNoAccessToken
    ELSE IF info.email = "throw" THEN ErrGoogleUserInfo
    ELSE IF info.email = Null \/ info.name = Null THEN ErrGoogleIncomplete
    ELSE IF ProviderAccountId(info) = Null THEN ErrGoogleNoId
    ELSE ""

GooglePreError_NoTokenCheck(st, exch, info) ==
    IF st.role = "malformed" THEN ErrStateSyntax
    ELSE IF exch = "throw" THEN ErrGoogleExchange
    ELSE IF info.email = "throw" THEN ErrGoogleUserInfo
    ELSE IF info.email_verified = "false" THEN ErrGoogleEmailUnverified
    ELSE IF info.email = Null \/ info.name = Null THEN ErrGoogleIncomplete
    ELSE IF ProviderAccountId(info) = Null THEN ErrGoogleNoId
    ELSE ""

GooglePreError(st, exch, info) ==
    IF st.role = "malformed" THEN ErrStateSyntax
    ELSE IF exch = "throw" THEN ErrGoogleExchange
    ELSE IF exch = "no_access_token" THEN ErrGoogleNoAccessToken
    ELSE IF info.email = "throw" THEN ErrGoogleUserInfo
    ELSE IF info.email_verified = "false" THEN ErrGoogleEmailUnverified
    ELSE IF info.email = Null \/ info.name = Null THEN ErrGoogleIncomplete
    ELSE IF ProviderAccountId(info) = Null THEN ErrGoogleNoId
    ELSE ""

\* providerAccounts: { where: { provider: GOOGLE } } of one user, lowest id first
GoogleAccountsOf(pas, uid) ==
    {i \in 1..Len(pas) : pas[i].userId = uid /\ pas[i].provider = "GOOGLE"}

Lowest(S) == CHOOSE i \in S : \A j \in S : i <= j

AccountIdTaken_Never(pas, sub) == FALSE

\* provider_accounts_provider_providerAccountId_key
AccountIdTaken(pas, sub) ==
    \E i \in 1..Len(pas) : pas[i].provider = "GOOGLE" /\ pas[i].providerAccountId = sub

NewAccountRow(uid, l) ==
    [userId |-> uid, provider |-> "GOOGLE", providerAccountId |-> l.sub,
     providerEmail |-> l.email, accessToken |-> l.gtok]

\* history: what getGoogleUserInfo returned as email_verified, "none" when the
\* call did not get that far
Reported(st, exch, info) ==
    IF st.role = "malformed" \/ exch \in {"throw", "no_access_token"} \/ info.email = "throw"
    THEN "none"
    ELSE info.email_verified

\* history: how the calls to Google ended, "none" when the state did not parse and
\* they were not made
Boundary(st, exch, info) ==
    IF st.role = "malformed" THEN "none"
    ELSE IF exch = "throw" THEN "exchange throws"
    ELSE IF exch = "no_access_token" THEN "no access token"
    ELSE IF info.email = "throw" THEN "profile throws"
    ELSE "answered"

StartGoogle(p, st, exch, info) ==
    /\ CanStart(p)
    /\ LET err == GooglePreError(st, exch, info)
           l == [IdleLoc EXCEPT !.op = "googleAuth", !.role = st.role,
                                !.nonce = st.nonce, !.statePre = StatePreOf(st),
                                !.verified = Reported(st, exch, info),
                                !.boundary = Boundary(st, exch, info),
                                !.pre = IF info.email \in RawEmails /\ Registered(info.email)
                                        THEN "registered" ELSE "fresh"]
       IN IF err # ""
          THEN /\ pc' = [pc EXCEPT ![p] = "done"]
               /\ loc' = [loc EXCEPT ![p] = Fail(l, err)]
          ELSE /\ RoomForToken
               /\ RoomForUser \/ FindUserByEmail(users, ToLowerCase(info.email)) # 0
               /\ pc' = [pc EXCEPT ![p] = "g_find"]
               /\ loc' = [loc EXCEPT ![p] =
                            [l EXCEPT !.email = info.email, !.gtok = exch,
                                      !.sub = ProviderAccountId(info)]]
    /\ UNCHANGED <<dbvars, now, ticks, nextJti, cfg, shopvars, oauth, minted, regOk, rotated, forcedOut>>

\* GFind writing the role of the state into the row found
GFind_AdoptRole(p) ==
    /\ pc[p] = "g_find"
    /\ LET uid == FindUserByEmail(users, ToLowerCase(loc[p].email))
           accts == IF uid = 0 THEN {} ELSE GoogleAccountsOf(providerAccounts, uid)
       IN /\ users' = IF uid = 0 THEN users ELSE [users EXCEPT ![uid].role = loc[p].role]
          /\ IF uid = 0
             THEN /\ pc' = [pc EXCEPT ![p] = "g_user_create"]
                  /\ loc' = loc
             ELSE IF accts = {}
             THEN /\ pc' = [pc EXCEPT ![p] = "g_account_create"]
                  /\ loc' = [loc EXCEPT ![p].uid = uid, ![p].user = users[uid]]
             ELSE /\ pc' = [pc EXCEPT ![p] = "g_account_update"]
                  /\ loc' = [loc EXCEPT ![p].uid = uid, ![p].user = users[uid],
                                        ![p].aid = Lowest(accts)]
    /\ UNCHANGED <<refreshTokens, providerAccounts, now, ticks, nextJti, cfg, shopvars, oauth, minted,
                   regOk, rotated, forcedOut>>

\* GFind going on to the provider account whatever the stored role
GFind_NoRoleCheck(p) ==
    /\ pc[p] = "g_find"
    /\ LET uid == FindUserByEmail(users, ToLowerCase(loc[p].email))
           accts == IF uid = 0 THEN {} ELSE GoogleAccountsOf(providerAccounts, uid)
       IN IF uid = 0
          THEN /\ pc' = [pc EXCEPT ![p] = "g_user_create"]
               /\ loc' = loc
          ELSE IF accts = {}
          THEN /\ pc' = [pc EXCEPT ![p] = "g_account_create"]
               /\ loc' = [loc EXCEPT ![p].uid = uid, ![p].user = users[uid]]
          ELSE /\ pc' = [pc EXCEPT ![p] = "g_account_update"]
               /\ loc' = [loc EXCEPT ![p].uid = uid, ![p].user = users[uid],
                                     ![p].aid = Lowest(accts)]
    /\ UNCHANGED <<dbvars, now, ticks, nextJti, cfg, shopvars, oauth, minted, regOk, rotated, forcedOut>>

\* user.findUnique by e-mail with its Google provider accounts, the role check
GFind(p) ==
    /\ pc[p] = "g_find"
    /\ LET uid == FindUserByEmail(users, ToLowerCase(loc[p].email))
           accts == IF uid = 0 THEN {} ELSE GoogleAccountsOf(providerAccounts, uid)
       IN IF uid = 0
          THEN /\ pc' = [pc EXCEPT ![p] = "g_user_create"]
               /\ loc' = loc
          ELSE IF users[uid].role # loc[p].role
          THEN /\ pc' = [pc EXCEPT ![p] = "done"]
               /\ loc' = [loc EXCEPT ![p] = Fail([@ EXCEPT !.uid = uid], ErrInvalidRole)]
          ELSE IF accts = {}
          THEN /\ pc' = [pc EXCEPT ![p] = "g_account_create"]
               /\ loc' = [loc EXCEPT ![p].uid = uid, ![p].user = users[uid]]
          ELSE /\ pc' = [pc EXCEPT ![p] = "g_account_update"]
               /\ loc' = [loc EXCEPT ![p].uid = uid, ![p].user = users[uid],
                                     ![p].aid = Lowest(accts)]
    /\ UNCHANGED <<dbvars, now, ticks, nextJti, cfg, shopvars, oauth, minted, regOk, rotated, forcedOut>>

\* providerAccount.create for an existing user
GAccountCreate(p) ==
    /\ pc[p] = "g_account_create"
    /\ IF AccountIdTaken(providerAccounts, loc[p].sub)
       THEN /\ pc' = [pc EXCEPT ![p] = "done"]
            /\ loc' = [loc EXCEPT ![p] = Fail(@, ErrUniqueConstraint)]
            /\ UNCHANGED providerAccounts
       ELSE /\ providerAccounts' = Append(providerAccounts, NewAccountRow(loc[p].uid, loc[p]))
            /\ pc' = [pc EXCEPT ![p] = "g_update"]
            /\ loc' = [loc EXCEPT ![p].aw = @ + 1]
    /\ UNCHANGED <<users, refreshTokens, now, ticks, nextJti, cfg, shopvars, oauth, minted, regOk, rotated, forcedOut>>

\* providerAccount.update of the first account found
GAccountUpdate(p) ==
    /\ pc[p] = "g_account_update"
    /\ providerAccounts' = [providerAccounts EXCEPT ![loc[p].aid].accessToken = loc[p].gtok]
    /\ pc' = [pc EXCEPT ![p] = "g_update"]
    /\ loc' = [loc EXCEPT ![p].aw = @ + 1]
    /\ UNCHANGED <<users, refreshTokens, now, ticks, nextJti, cfg, shopvars, oauth, minted, regOk, rotated, forcedOut>>

GoogleUserRow_Unverified(l) ==
    [email |-> ToLowerCase(l.email), passwordHash |-> NullHash,
     role |-> l.role, emailVerified |-> FALSE, lastLoginAt |-> NullTime]

\* the users row googleAuth() inserts
GoogleUserRow(l) ==
    [email |-> ToLowerCase(l.email), passwordHash |-> NullHash,
     role |-> l.role, emailVerified |-> TRUE, lastLoginAt |-> NullTime]

\* user.create with the nested providerAccounts create (one statement)
GUserCreate(p) ==
    /\ pc[p] = "g_user_create"
    /\ IF \/ FindUserByEmail(users, ToLowerCase(loc[p].email)) # 0
          \/ AccountIdTaken(providerAccounts, loc[p].sub)
       THEN /\ pc' = [pc EXCEPT ![p] = "done"]
            /\ loc' = [loc EXCEPT ![p] = Fail(@, ErrUniqueConstraint)]
            /\ UNCHANGED <<users, providerAccounts>>
       ELSE LET uid == Len(users) + 1
            IN /\ users' = Append(users, GoogleUserRow(loc[p]))
               /\ providerAccounts' = Append(providerAccounts, NewAccountRow(uid, loc[p]))
               /\ pc' = [pc EXCEPT ![p] = "g_update"]
               /\ loc' = [loc EXCEPT ![p].uid = uid, ![p].user = GoogleUserRow(loc[p]),
                                     ![p].uw = @ + 1, ![p].aw = @ + 1]
    /\ UNCHANGED <<refreshTokens, now, ticks, nextJti, cfg, shopvars, oauth, minted, regOk, rotated, forcedOut>>

\* user.update of lastLoginAt, then generateTokenPair
GUpdate(p) ==
    /\ pc[p] = "g_update"
    /\ LET uid == loc[p].uid
           tok == generateRefreshToken(uid, users[uid], now, nextJti, cfg.ttlDays)
       IN /\ users' = TouchLastLogin(users, uid, now)
          /\ nextJti' = nextJti + 1
          /\ minted' = minted \cup {tok, generateAccessToken(uid, users[uid], now)}
          /\ loc' = [loc EXCEPT ![p].newTok = tok,
                                ![p].access = generateAccessToken(uid, users[uid], now),
                                ![p].uw = @ + 1]
    /\ pc' = [pc EXCEPT ![p] = "g_token"]
    /\ UNCHANGED <<refreshTokens, providerAccounts, now, ticks, cfg, shopvars, oauth, regOk, rotated, forcedOut>>

\* refreshToken.create, logAuth, return
GToken(p) ==
    /\ pc[p] = "g_token"
    /\ refreshTokens' = Append(refreshTokens, NewTokenRow(loc[p].uid, loc[p].newTok))
    /\ oauth' = IF cfg.history
                THEN [oauth EXCEPT !.accepted =
                                      @ \cup {[role |-> loc[p].role, nonce |-> loc[p].nonce]}]
                ELSE oauth
    /\ pc' = [pc EXCEPT ![p] = "done"]
    /\ loc' = [loc EXCEPT ![p] = Succeed([@ EXCEPT !.tw = @ + 1])]
    /\ UNCHANGED <<users, providerAccounts, now, ticks, nextJti, cfg, shopvars, minted, regOk, rotated, forcedOut>>

-----------------------------------------------------------------------------
(* errorHandler: middleware/errorHandler.ts 20-112 *)

\* error.message is a text; the message of a ZodError is the JSON text of its issues
Text(t) == [text |-> t]
ZodMessage(issues) == [issues |-> issues]

\* the fields of the request body a schema can reject
BodyFields == {"email", "password"}

\* new AppError(message, statusCode): name "Error", instanceof AppError
AppErrors ==
    [class : {"AppError"}, name : {"Error"}, code : {Null},
     statusCode : {400, 401, 403, 404, 409, 500},
     message : {Text("Route /api/x not found"), Text("secret detail")},
     stack : {"at handler"}]

\* schema.parse(req.body) throwing: one issue per rejected field
ZodErrorOn(fs) ==
    [class |-> "ZodError", name |-> "ZodError", code |-> Null, statusCode |-> 0,
     message |-> ZodMessage(fs), stack |-> "at handler"]
ZodErrors == {ZodErrorOn(fs) : fs \in (SUBSET BodyFields) \ {{}}}

\* every other Error, told apart by error.name; Prisma's known request errors
\* carry a code
ErrorNames ==
    {"Error", "JsonWebTokenError", "TokenExpiredError", "PrismaClientKnownRequestError",
     "PrismaClientValidationError", "CastError", "ValidationError"}
PlainErrors ==
    {e \in [class : {"Error"}, name : ErrorNames, code : {Null, "P2002", "P2025", "P2003"},
             statusCode : {0},
             message : {Text("User with this email already exists"), Text("secret detail")},
             stack : {"at handler"}] :
        e.code # Null <=> e.name = "PrismaClientKnownRequestError"}

ThrownErrors == AppErrors \cup ZodErrors \cup PlainErrors

NodeEnvs == {"development", "production", "test", Null}

\* lines 26-75: << statusCode, message, errorCode >>
Classify(error) ==
    IF error.class = "AppError" THEN <<error.statusCode, error.message, "APP_ERROR">>
    ELSE IF error.class = "ZodError" THEN <<400, Text("Validation error"), "VALIDATION_ERROR">>
    ELSE IF error.name = "JsonWebTokenError" THEN <<401, Text("Invalid token"), "INVALID_TOKEN">>
    ELSE IF error.name = "TokenExpiredError" THEN <<401, Text("Token expired"), "TOKEN_EXPIRED">>
    ELSE IF error.name = "PrismaClientKnownRequestError"
    THEN IF error.code = "P2002"
         THEN <<409, Text("Resource already exists"), "DUPLICATE_ENTRY">>
         ELSE IF error.code = "P2025"
         THEN <<404, Text("Resource not found"), "NOT_FOUND">>
         ELSE <<400, Text("Database error"), "DATABASE_ERROR">>
    ELSE IF error.name = "PrismaClientValidationError"
    THEN <<400, Text("Invalid data provided"), "VALIDATION_ERROR">>
    ELSE IF error.name = "CastError" THEN <<400, Text("Invalid ID format"), "INVALID_ID">>
    ELSE IF error.name = "ValidationError"
    THEN <<400, Text("Validation error"), "VALIDATION_ERROR">>
    ELSE <<500, Text("Internal Server Error"), "INTERNAL_ERROR">>

\* lines 96-111: res.status(statusCode).json(errorResponse)
errorHandler(error, env) ==
    LET c == Classify(error)
    IN [status |-> c[1],
        body |-> [success |-> FALSE,
                  error |-> IF env = "development"
                            THEN [code |-> c[3], message |-> c[2],
                                  details |-> error.message, stack |-> error.stack]
                            ELSE [code |-> c[3], message |-> c[2]]]]

\* a request whose handler throws, or that matches no route: asyncHandler and
\* notFoundHandler pass the error to next(), Express calls errorHandler
RequestFails(p, error) ==
    /\ CanStart(p)
    /\ pc' = [pc EXCEPT ![p] = "done"]
    /\ loc' = [loc EXCEPT ![p] =
                 [IdleLoc EXCEPT !.op = "errorHandler", !.status = "err",
                                 !.thrown = error,
                                 !.response = errorHandler(error, cfg.nodeEnv)]]
    /\ UNCHANGED <<authvars, shopvars>>

-----------------------------------------------------------------------------
(* Multi-stop orders: part_012.  A stop of a request body is                *)
(* [storeName, items], items being the quantities asked for; the stops of   *)
(* an order are kept in its row (they are read and replaced only together   *)
(* with it).  A deleted row keeps its id and has exists = FALSE.            *)

RECURSIVE SumSeq(_)
SumSeq(q) == IF q = <<>> THEN 0 ELSE Head(q) + SumSeq(Tail(q))

\* stop.items.reduce((sum, item) => sum + (item.quantity * 10), 0)
EstimatedAmount(items) == SumSeq([i \in 1..Len(items) |-> items[i] * 10])

\* the stops rows built from the stops of a request body, stopOrder = i + 1
StopRows(stops) ==
    [i \in 1..Len(stops) |->
        [storeName |-> stops[i].storeName, stopOrder |-> i, items |-> stops[i].items,
         estimatedAmount |-> EstimatedAmount(stops[i].items)]]

\* totalAmount += estimatedAmount over the stops
TotalAmount(stops) == SumSeq([i \in 1..Len(stops) |-> EstimatedAmount(stops[i].items)])

StopLists ==
    {<<[storeName |-> "s1", items |-> <<1>>]>>,
     <<[storeName |-> "s1", items |-> <<2, 1>>], [storeName |-> "s2", items |-> <<1>>]>>}

\* bodies updateMultiStopOrderSchema accepts: every field optional
UpdateBodies == [name : {Null, "renamed"}, stops : {<<>>} \cup StopLists]

\* findFirst({ where: { id, customerId, status: DRAFT } }): TRUE when a row matches
FindDraft(msos, id, customerId) ==
    /\ id \in 1..Len(msos)
    /\ msos[id].exists
    /\ msos[id].customerId = customerId
    /\ msos[id].status = "DRAFT"

RowExists(msos, id) == id \in 1..Len(msos) /\ msos[id].exists

\* what Prisma throws when a write names a row that is gone (P2025) or a parent
\* row that is gone (P2003)
PrismaError(code) ==
    [class |-> "Error", name |-> "PrismaClientKnownRequestError", code |-> code,
     statusCode |-> 0, message |-> Text("prisma"), stack |-> "at handler"]

\* res.status(status).json({ success: false, error: { code } }) in a handler
Reply(l, status, code) ==
    [l EXCEPT !.status = IF status < 400 THEN "ok" ELSE "err",
              !.response = [status |-> status, code |-> code]]

\* the handler threw: asyncHandler passes the error to errorHandler
Throw(l, error) ==
    [l EXCEPT !.status = "err", !.thrown = error,
              !.response = errorHandler(error, cfg.nodeEnv)]

PlanCreators == {p \in Procs : pc[p] = "mso_create"}

StartCreatePlan(p, c, stops) ==
    /\ CanStart(p)
    /\ Len(multiStopOrders) + Cardinality(PlanCreators) < MaxPlans
    /\ pc' = [pc EXCEPT ![p] = "mso_create"]
    /\ loc' = [loc EXCEPT ![p] =
                 [IdleLoc EXCEPT !.op = "createMultiStopOrder", !.customer = c,
                                 !.body = [name |-> "plan", stops |-> stops]]]
    /\ UNCHANGED <<authvars, shopvars>>

\* multiStopOrder.create with its stops, status DRAFT
MsoCreate(p) ==
    /\ pc[p] = "mso_create"
    /\ multiStopOrders' =
          Append(multiStopOrders,
                 [exists |-> TRUE, customerId |-> loc[p].customer, name |-> loc[p].body.name,
                  status |-> "DRAFT", totalAmount |-> TotalAmount(loc[p].body.stops),
                  stops |-> StopRows(loc[p].body.stops)])
    /\ pc' = [pc EXCEPT ![p] = "done"]
    /\ loc' = [loc EXCEPT ![p] =
                 Reply([@ EXCEPT !.orderId = Len(multiStopOrders) + 1], 201, "")]
    /\ UNCHANGED <<authvars, orders, stores>>

StartUpdatePlan(p, c, id, body) ==
    /\ CanStart(p)
    /\ pc' = [pc EXCEPT ![p] = "mso_update_find"]
    /\ loc' = [loc EXCEPT ![p] =
                 [IdleLoc EXCEPT !.op = "updateMultiStopOrder", !.customer = c,
                                 !.orderId = id, !.body = body]]
    /\ UNCHANGED <<authvars, shopvars>>

\* findFirst by id, customer and status DRAFT; 404 when nothing matches
MsoUpdateFind(p) ==
    /\ pc[p] = "mso_update_find"
    /\ IF FindDraft(multiStopOrders, loc[p].orderId, loc[p].customer)
       THEN /\ pc' = [pc EXCEPT ![p] = "mso_update_tx"]
            /\ loc' = loc
       ELSE /\ pc' = [pc EXCEPT ![p] = "done"]
            /\ loc' = [loc EXCEPT ![p] = Reply(@, 404, "MULTI_STOP_ORDER_NOT_FOUND")]
    /\ UNCHANGED <<authvars, shopvars>>

\* lines 239-293: updateData, the stops replaced when stops are given
ApplyUpdate(row, body) ==
    [row EXCEPT !.name = IF body.name # Null THEN body.name ELSE @,
                !.stops = IF body.stops # <<>> THEN StopRows(body.stops) ELSE @,
                !.totalAmount = IF body.stops # <<>> THEN TotalAmount(body.stops) ELSE @]

\* prisma.$transaction: deleteMany / createMany of the stops, update({ where: { id } }).
\* When the order is gone createMany breaks the foreign key, update finds no row.
MsoUpdateTx(p) ==
    /\ pc[p] = "mso_update_tx"
    /\ LET id == loc[p].orderId
       IN IF RowExists(multiStopOrders, id)
          THEN /\ multiStopOrders' =
                     [multiStopOrders EXCEPT ![id] = ApplyUpdate(@, loc[p].body)]
               /\ loc' = [loc EXCEPT ![p] = Reply(@, 200, "")]
          ELSE /\ UNCHANGED multiStopOrders
               /\ loc' = [loc EXCEPT ![p] =
                            Throw(@, PrismaError(IF loc[p].body.stops # <<>>
                                                 THEN "P2003" ELSE "P2025"))]
    /\ pc' = [pc EXCEPT ![p] = "done"]
    /\ UNCHANGED <<authvars, orders, stores>>

StartDeletePlan(p, c, id) ==
    /\ CanStart(p)
    /\ pc' = [pc EXCEPT ![p] = "mso_delete_find"]
    /\ loc' = [loc EXCEPT ![p] =
                 [IdleLoc EXCEPT !.op = "deleteMultiStopOrder", !.customer = c,
                                 !.orderId = id]]
    /\ UNCHANGED <<authvars, shopvars>>

\* findFirst by id, customer and status DRAFT; 404 when nothing matches
MsoDeleteFind(p) ==
    /\ pc[p] = "mso_delete_find"
    /\ IF FindDraft(multiStopOrders, loc[p].orderId, loc[p].customer)
       THEN /\ pc' = [pc EXCEPT ![p] = "mso_delete"]
            /\ loc' = loc
       ELSE /\ pc' = [pc EXCEPT ![p] = "done"]
            /\ loc' = [loc EXCEPT ![p] = Reply(@, 404, "MULTI_STOP_ORDER_NOT_FOUND")]
    /\ UNCHANGED <<authvars, shopvars>>

\* multiStopOrder.delete({ where: { id } }), the stops cascade
MsoDelete(p) ==
    /\ pc[p] = "mso_delete"
    /\ LET id == loc[p].orderId
       IN IF RowExists(multiStopOrders, id)
          THEN /\ multiStopOrders' = [multiStopOrders EXCEPT ![id].exists = FALSE,
                                                             ![id].stops = <<>>]
               /\ loc' = [loc EXCEPT ![p] = Reply(@, 200, "")]
          ELSE /\ UNCHANGED multiStopOrders
               /\ loc' = [loc EXCEPT ![p] = Throw(@, PrismaError("P2025"))]
    /\ pc' = [pc EXCEPT ![p] = "done"]
    /\ UNCHANGED <<authvars, orders, stores>>

StartSubmitPlan(p, c, id) ==
    /\ CanStart(p)
    /\ pc' = [pc EXCEPT ![p] = "mso_submit_find"]
    /\ loc' = [loc EXCEPT ![p] =
                 [IdleLoc EXCEPT !.op = "submitMultiStopOrder", !.customer = c,
                                 !.orderId = id]]
    /\ UNCHANGED <<authvars, shopvars>>

\* findFirst by id, customer and status DRAFT with the stops; 404, or 400 without stops
MsoSubmitFind(p) ==
    /\ pc[p] = "mso_submit_find"
    /\ IF ~FindDraft(multiStopOrders, loc[p].orderId, loc[p].customer)
       THEN /\ pc' = [pc EXCEPT ![p] = "done"]
            /\ loc' = [loc EXCEPT ![p] = Reply(@, 404, "MULTI_STOP_ORDER_NOT_FOUND")]
       ELSE IF Len(multiStopOrders[loc[p].orderId].stops) = 0
       THEN /\ pc' = [pc EXCEPT ![p] = "done"]
            /\ loc' = [loc EXCEPT ![p] = Reply(@, 400, "NO_STOPS")]
       ELSE /\ pc' = [pc EXCEPT ![p] = "mso_submit"]
            /\ loc' = loc
    /\ UNCHANGED <<authvars, shopvars>>

\* multiStopOrder.update({ where: { id }, data: { status: SUBMITTED } })
MsoSubmit(p) ==
    /\ pc[p] = "mso_submit"
    /\ LET id == loc[p].orderId
       IN IF RowExists(multiStopOrders, id)
          THEN /\ multiStopOrders' = [multiStopOrders EXCEPT ![id].status = "SUBMITTED"]
               /\ loc' = [loc EXCEPT ![p] = Reply(@, 200, "")]
          ELSE /\ UNCHANGED multiStopOrders
               /\ loc' = [loc EXCEPT ![p] = Throw(@, PrismaError("P2025"))]
    /\ pc' = [pc EXCEPT ![p] = "done"]
    /\ UNCHANGED <<authvars, orders, stores>>

-----------------------------------------------------------------------------
(* rateOrder: orderController.ts 350-431 *)

\* ratings a request body can carry; rateOrderSchema accepts 1..5
RatingInputs == {0, 1, 5}

\* if (order.customerRating): null and 0 are falsy
Truthy(v) == v # NullRating /\ v # 0

\* the orders table as the order routes and the delivery side have left it:
\* unrated orders, placed and delivered
SeedOrders ==
    [1..MaxOrders -> [customerId : Customers, storeId : StoreIds,
                      status : {"PENDING", "DELIVERED"}, customerRating : {NullRating}]]

\* findFirst({ where: { id, customerId, status: DELIVERED } }): TRUE when a row matches
FindDelivered(os, id, customerId) ==
    /\ id \in 1..Len(os)
    /\ os[id].customerId = customerId
    /\ os[id].status = "DELIVERED"

\* findMany({ where: { storeId, customerRating: { not: null } } }) reduced to the
\* sum of the ratings and their number
StoreRatings(os, sid) ==
    LET rated == {i \in 1..Len(os) : os[i].storeId = sid /\ os[i].customerRating # NullRating}
        RECURSIVE Sum(_)
        Sum(S) == IF S = {} THEN 0
                  ELSE LET i == CHOOSE x \in S : TRUE
                       IN os[i].customerRating + Sum(S \ {i})
    IN [sum |-> Sum(rated), totalRatings |-> Cardinality(rated)]

\* the call up to its first await: rateOrderSchema.parse throws synchronously
StartRate(p, c, id, rating) ==
    /\ CanStart(p)
    /\ LET l == [IdleLoc EXCEPT !.op = "rateOrder", !.customer = c, !.orderId = id,
                                !.rating = rating]
       IN IF rating \in 1..5
          THEN /\ pc' = [pc EXCEPT ![p] = "rate_find"]
               /\ loc' = [loc EXCEPT ![p] = l]
          ELSE /\ pc' = [pc EXCEPT ![p] = "done"]
               /\ loc' = [loc EXCEPT ![p] = Throw(l, ZodErrorOn({"rating"}))]
    /\ UNCHANGED <<authvars, shopvars>>

\* findFirst by id, customer and status DELIVERED; 404, or 400 when already rated
RateFind(p) ==
    /\ pc[p] = "rate_find"
    /\ IF ~FindDelivered(orders, loc[p].orderId, loc[p].customer)
       THEN /\ pc' = [pc EXCEPT ![p] = "done"]
            /\ loc' = [loc EXCEPT ![p] = Reply(@, 404, "ORDER_NOT_FOUND")]
       ELSE IF Truthy(orders[loc[p].orderId].customerRating)
       THEN /\ pc' = [pc EXCEPT ![p] = "done"]
            /\ loc' = [loc EXCEPT ![p] = Reply(@, 400, "ALREADY_RATED")]
       ELSE /\ pc' = [pc EXCEPT ![p] = "rate_update"]
            /\ loc' = [loc EXCEPT ![p].storeId = orders[loc[p].orderId].storeId]
    /\ UNCHANGED <<authvars, shopvars>>

\* order.update({ where: { id }, data: { customerRating, customerReview } })
RateUpdate(p) ==
    /\ pc[p] = "rate_update"
    /\ orders' = [orders EXCEPT ![loc[p].orderId].customerRating = loc[p].rating]
    /\ pc' = [pc EXCEPT ![p] = "rate_store_find"]
    /\ loc' = loc
    /\ UNCHANGED <<authvars, multiStopOrders, stores>>

\* order.findMany of the rated orders of the store
RateStoreFind(p) ==
    /\ pc[p] = "rate_store_find"
    /\ pc' = [pc EXCEPT ![p] = "rate_store_update"]
    /\ loc' = [loc EXCEPT ![p].found = StoreRatings(orders, loc[p].storeId)]
    /\ UNCHANGED <<authvars, shopvars>>

\* store.update({ rating: averageRating, totalRatings }), then 200
RateStoreUpdate(p) ==
    /\ pc[p] = "rate_store_update"
    /\ stores' = [stores EXCEPT ![loc[p].storeId] = loc[p].found]
    /\ pc' = [pc EXCEPT ![p] = "done"]
    /\ loc' = [loc EXCEPT ![p] = Reply(@, 200, "")]
    /\ UNCHANGED <<authvars, multiStopOrders, orders>>

-----------------------------------------------------------------------------
(* The environment *)

\* the caller has its result; the request slot is free again
Return(p) ==
    /\ pc[p] = "done"
    /\ pc' = [pc EXCEPT ![p] = "idle"]
    /\ loc' = [loc EXCEPT ![p] = IdleLoc]
    /\ UNCHANGED <<dbvars, now, ticks, nextJti, cfg, shopvars, oauth, minted, regOk, rotated, forcedOut>>

\* between requests the clock advances by a minute or by the lifetime of a
\* refresh_tokens row
Tick(d) ==
    /\ ticks < MaxTicks
    /\ InFlight = {}
    /\ now' = now + d
    /\ ticks' = ticks + 1
    /\ UNCHANGED <<dbvars, nextJti, cfg, shopvars, oauth, minted, regOk, rotated, forcedOut, pc, loc>>

TickSteps == {1, RECORD_TTL_DAYS * MinutesPerDay}

RegisterCall ==
    \/ \E p \in Procs, e \in RawEmails, pw \in RegisterPasswords, r \in InputRoles :
          StartRegister(p, e, pw, r)
    \/ \E p \in Procs : RegFind(p)
    \/ \E p \in Procs : RegCreate(p)
    \/ \E p \in Procs : RegToken(p)

LoginCall ==
    \/ \E p \in Procs, e \in RawEmails, pw \in LoginPasswords, r \in InputRoles :
          StartLogin(p, e, pw, r)
    \/ \E p \in Procs : LoginFind(p)
    \/ \E p \in Procs : LoginUpdate(p)
    \/ \E p \in Procs : LoginToken(p)

RefreshCall ==
    \/ \E p \in Procs, tok \in Presentable : StartRefresh(p, tok)
    \/ \E p \in Procs : RefFind(p)
    \/ \E p \in Procs : RefRevoke(p)
    \/ \E p \in Procs : RefToken(p)

LogoutCall ==
    \/ \E p \in Procs, tok \in Presentable : StartLogout(p, tok)
    \/ \E p \in Procs : LogoutUpdate(p)

LogoutAllCall ==
    \/ \E p \in Procs, uid \in 1..MaxUsers : StartLogoutAll(p, uid)
    \/ \E p \in Procs : LogoutAllUpdate(p)

ProfileCall ==
    \/ \E p \in Procs, tok \in Presentable \cup ForeignAccessTokens : StartProfile(p, tok)
    \/ \E p \in Procs : AuthFind(p)
    \/ \E p \in Procs : ProfFind(p)

InitiateCall == \E r \in InputRoles : GenerateGoogleAuthUrl(r)

GoogleCall ==
    \/ \E p \in Procs, st \in OAuthStates, x \in ExchangeOutcomes, info \in InfoOutcomes :
          StartGoogle(p, st, x, info)
    \/ \E p \in Procs : GFind(p)
    \/ \E p \in Procs : GAccountCreate(p)
    \/ \E p \in Procs : GAccountUpdate(p)
    \/ \E p \in Procs : GUserCreate(p)
    \/ \E p \in Procs : GUpdate(p)
    \/ \E p \in Procs : GToken(p)

CreatePlanCall ==
    \/ \E p \in Procs, c \in Customers, stops \in StopLists : StartCreatePlan(p, c, stops)
    \/ \E p \in Procs : MsoCreate(p)

UpdatePlanCall ==
    \/ \E p \in Procs, c \in Customers, id \in 1..MaxPlans, b \in UpdateBodies :
          StartUpdatePlan(p, c, id, b)
    \/ \E p \in Procs : MsoUpdateFind(p)
    \/ \E p \in Procs : MsoUpdateTx(p)

DeletePlanCall ==
    \/ \E p \in Procs, c \in Customers, id \in 1..MaxPlans : StartDeletePlan(p, c, id)
    \/ \E p \in Procs : MsoDeleteFind(p)
    \/ \E p \in Procs : MsoDelete(p)

SubmitPlanCall ==
    \/ \E p \in Procs, c \in Customers, id \in 1..MaxPlans : StartSubmitPlan(p, c, id)
    \/ \E p \in Procs : MsoSubmitFind(p)
    \/ \E p \in Procs : MsoSubmit(p)

RateCall ==
    \/ \E p \in Procs, c \in Customers, id \in 1..MaxOrders, r \in RatingInputs :
          StartRate(p, c, id, r)
    \/ \E p \in Procs : RateFind(p)
    \/ \E p \in Procs : RateUpdate(p)
    \/ \E p \in Procs : RateStoreFind(p)
    \/ \E p \in Procs : RateStoreUpdate(p)

ErrorCall == \E p \in Procs, e \in ThrownErrors : RequestFails(p, e)

Returns == \E p \in Procs : Return(p)

ClockAdvance == \E d \in TickSteps : Tick(d)

(* Every operation of the service, one request at a time *)
Next ==
    \/ RegisterCall
    \/ LoginCall
    \/ GoogleCall
    \/ RefreshCall
    \/ LogoutCall
    \/ LogoutAllCall
    \/ ProfileCall
    \/ Returns

Spec == Init /\ [][Next]_vars

(* The session operations on their own, with room for three sessions *)
InitSessions == InitWith([ttlDays |-> REFRESH_TOKEN_TTL_DAYS, maxInFlight |-> 1,
                          tokenCap |-> MaxSessionTokens, history |-> TRUE,
                          accessSecret |-> "access", refreshSecret |-> "refresh",
              nodeEnv |-> "production"])

NextSessions ==
    \/ RegisterCall
    \/ LoginCall
    \/ RefreshCall
    \/ LogoutCall
    \/ LogoutAllCall
    \/ Returns

SpecSessions == InitSessions /\ [][NextSessions]_vars

(* Two requests overlapping at their awaited database calls *)
InitRace == InitWith([ttlDays |-> REFRESH_TOKEN_TTL_DAYS, maxInFlight |-> 2,
                      tokenCap |-> MaxSessionTokens, history |-> FALSE,
                      accessSecret |-> "access", refreshSecret |-> "refresh",
              nodeEnv |-> "production"])

NextRace ==
    \/ RegisterCall
    \/ RefreshCall
    \/ LogoutAllCall
    \/ Returns

SpecRace == InitRace /\ [][NextRace]_vars

(* The OAuth round trip: states issued at initiation and presented at the   *)
(* callback                                                                 *)
InitOAuth == InitWith([ttlDays |-> REFRESH_TOKEN_TTL_DAYS, maxInFlight |-> 1,
                       tokenCap |-> MaxTokens, history |-> TRUE,
                       accessSecret |-> "access", refreshSecret |-> "refresh",
              nodeEnv |-> "production"])

NextOAuth ==
    \/ RegisterCall
    \/ InitiateCall
    \/ GoogleCall
    \/ Returns

SpecOAuth == InitOAuth /\ [][NextOAuth]_vars

(* The token codec: tokens of both types presented to authenticate and to   *)
(* refreshToken, with JWT_ACCESS_SECRET and JWT_REFRESH_SECRET configured   *)
(* different or equal                                                       *)
InitCodec ==
    \E k \in {"refresh", "access"} :
        InitWith([ttlDays |-> REFRESH_TOKEN_TTL_DAYS, maxInFlight |-> 1,
                  tokenCap |-> MaxTokens, history |-> FALSE,
                  accessSecret |-> "access", refreshSecret |-> k,
                  nodeEnv |-> "production"])

NextCodec ==
    \/ RegisterCall
    \/ RefreshCall
    \/ ProfileCall
    \/ ClockAdvance
    \/ Returns

SpecCodec == InitCodec /\ [][NextCodec]_vars

(* Forced logout: logoutAll, and the access tokens presented to authenticate *)
(* after it                                                                 *)
InitForcedLogout == InitWith([ttlDays |-> REFRESH_TOKEN_TTL_DAYS, maxInFlight |-> 1,
                              tokenCap |-> MaxTokens, history |-> TRUE,
                              accessSecret |-> "access", refreshSecret |-> "refresh",
              nodeEnv |-> "production"])

NextForcedLogout ==
    \/ RegisterCall
    \/ LoginCall
    \/ LogoutAllCall
    \/ ProfileCall
    \/ Returns

SpecForcedLogout == InitForcedLogout /\ [][NextForcedLogout]_vars

(* The error middleware: every error a handler can pass on, under every     *)
(* NODE_ENV                                                                 *)
InitErrors ==
    \E e \in NodeEnvs :
        InitWith([ttlDays |-> REFRESH_TOKEN_TTL_DAYS, maxInFlight |-> 1,
                  tokenCap |-> MaxTokens, history |-> FALSE,
                  accessSecret |-> "access", refreshSecret |-> "refresh", nodeEnv |-> e])

NextErrors ==
    \/ ErrorCall
    \/ Returns

SpecErrors == InitErrors /\ [][NextErrors]_vars

(* Multi-stop orders, two requests overlapping at their awaited database    *)
(* calls                                                                    *)
InitPlans == InitWith([ttlDays |-> REFRESH_TOKEN_TTL_DAYS, maxInFlight |-> 2,
                       tokenCap |-> MaxTokens, history |-> FALSE,
                       accessSecret |-> "access", refreshSecret |-> "refresh",
                       nodeEnv |-> "production"])

NextPlans ==
    \/ CreatePlanCall
    \/ UpdatePlanCall
    \/ DeletePlanCall
    \/ SubmitPlanCall
    \/ Returns

SpecPlans == InitPlans /\ [][NextPlans]_vars

(* Rating of orders, two requests overlapping at their awaited database     *)
(* calls                                                                    *)
InitRating ==
    \E os \in SeedOrders :
        InitWithOrders([ttlDays |-> REFRESH_TOKEN_TTL_DAYS, maxInFlight |-> 2,
                        tokenCap |-> MaxTokens, history |-> FALSE,
                        accessSecret |-> "access", refreshSecret |-> "refresh",
                        nodeEnv |-> "production"], os)

NextRating ==
    \/ RateCall
    \/ Returns

SpecRating == InitRating /\ [][NextRating]_vars

(* Token lifetimes: the clock advances and REFRESH_TOKEN_TTL_DAYS is configured *)
InitTime ==
    \E d \in {REFRESH_TOKEN_TTL_DAYS, LongRefreshTtlDays} :
        InitWith([ttlDays |-> d, maxInFlight |-> 1, tokenCap |-> MaxTokens,
                  history |-> TRUE,
                  accessSecret |-> "access", refreshSecret |-> "refresh",
              nodeEnv |-> "production"])

NextTime ==
    \/ RegisterCall
    \/ RefreshCall
    \/ ClockAdvance
    \/ Returns

SpecTime == InitTime /\ [][NextTime]_vars

-----------------------------------------------------------------------------
(* The error kinds of the specification, as a caller can tell them apart:  *)
(* by the message of the error thrown.  No message of the service stands   *)
(* for TokenRevoked.                                                       *)

ErrorKind(msg) ==
    CASE msg = ErrDuplicateUser -> "DuplicateUser"
      [] msg = ErrInvalidCredentials -> "InvalidCredentials"
      [] msg = ErrInvalidRole -> "RoleMismatch"
      [] msg = ErrOAuthRequired -> "OAuthAccountRequired"
      [] msg \in {ErrInvalidRefreshToken, ErrInvalidAccessToken} -> "InvalidToken"
      [] msg = ErrUserNotFound -> "UserNotFound"
      [] msg = ErrRefreshExpired -> "TokenExpired"
      [] msg = ErrGoogleEmailUnverified -> "EmailNotVerified"
      [] msg = ErrGoogleIncomplete -> "IncompleteProfile"
      [] msg \in {ErrGoogleExchange, ErrGoogleNoAccessToken, ErrGoogleUserInfo,
                  ErrGoogleNoId} -> "OAuthProviderError"
      [] OTHER -> "Unclassified"

Done(p, op) == pc[p] = "done" /\ loc[p].op = op
Ok(p) == loc[p].status = "ok"
Failed(p, msg) == loc[p].status = "err" /\ loc[p].error = msg

ActiveRows == {i \in 1..Len(refreshTokens) : ~refreshTokens[i].isRevoked}

-----------------------------------------------------------------------------
(* C1: two refresh calls that overlap on the same active refresh token end  *)
(* with exactly one success; they never both succeed.  (SpecRace)           *)
C1_NeverTwoSuccesses ==
    \A p, q \in Procs :
        ( /\ p # q
          /\ Done(p, "refresh") /\ Done(q, "refresh")
          /\ loc[p].token = loc[q].token )
        => ~(Ok(p) /\ Ok(q))

-----------------------------------------------------------------------------
-----------------------------------------------------------------------------
(* C3: a refresh_tokens row whose isRevoked is true keeps it true in every  *)
(* step of every operation.  (Spec)                                         *)
C3_RevokedIsTerminal ==
    [][\A i \in 1..Len(refreshTokens) :
          refreshTokens[i].isRevoked
          => i <= Len(refreshTokens') /\ refreshTokens'[i].isRevoked]_vars

\* a revoked row has been the target of a further logout, logoutAll or refresh
C3_Witness ==
    \E p \in Procs :
        /\ pc[p] = "done"
        /\ \/ loc[p].op \in {"logout", "refresh"}
              /\ loc[p].pre \in {"revoked", "rotated", "forcedOut"}
           \/ loc[p].op = "logoutAll"
              /\ Cardinality({i \in 1..Len(refreshTokens) :
                                 refreshTokens[i].userId = loc[p].uid}) > loc[p].tw
        /\ \E i \in 1..Len(refreshTokens) : refreshTokens[i].isRevoked

-----------------------------------------------------------------------------
-----------------------------------------------------------------------------
\* the users row that names the mailbox of address e (0 when none)
UserOf(e) ==
    IF Registered(e)
    THEN CHOOSE i \in 1..Len(users) : Mailbox(users[i].email) = Mailbox(e)
    ELSE 0

(* C5: register succeeds for an address whose mailbox has no users row,     *)
(* at most once per mailbox; a register call for a mailbox that already has *)
(* a row, whatever the letter case, fails with "User with this email        *)
(* already exists" and creates no users row and no refresh_tokens row.      *)
(* (Spec)                                                                   *)
C5_RegisterOnce ==
    /\ \A e \in RawEmails : regOk[e] <= 1
    /\ \A e1, e2 \in RawEmails :
          (e1 # e2 /\ Mailbox(e1) = Mailbox(e2)) => regOk[e1] + regOk[e2] <= 1
    /\ \A i, j \in 1..Len(users) :
          Mailbox(users[i].email) = Mailbox(users[j].email) => i = j
    /\ \A p \in Procs :
          /\ (Done(p, "register") /\ loc[p].pre = "fresh") => Ok(p)
          /\ (Done(p, "register") /\ loc[p].pre = "registered")
             => /\ Failed(p, ErrDuplicateUser)
                /\ loc[p].uw = 0 /\ loc[p].tw = 0
                /\ loc[p].newTok = NoToken

\* "A@x.io" is refused because "a@x.io" was registered before
C5_Witness ==
    \E p \in Procs :
        /\ Done(p, "register") /\ loc[p].pre = "registered"
        /\ loc[p].email = "A@x.io"
        /\ Failed(p, ErrDuplicateUser)
        /\ regOk["a@x.io"] = 1
        /\ Len(users) = 1

-----------------------------------------------------------------------------
\* a finished login against an account that has a password
PasswordLogin(p) ==
    /\ Done(p, "login")
    /\ UserOf(loc[p].email) # 0
    /\ users[UserOf(loc[p].email)].passwordHash # NullHash

RightPassword(p) == users[UserOf(loc[p].email)].passwordHash = BcryptHash(loc[p].password)
RightRole(p) == users[UserOf(loc[p].email)].role = loc[p].role

(* C6, as stated: against an account with a password, the right password    *)
(* and role succeed, the right password and another role fail with          *)
(* RoleMismatch, and a wrong password fails with InvalidCredentials. (Spec) *)
C6_AsStated ==
    \A p \in Procs :
        PasswordLogin(p)
        => /\ (RightPassword(p) /\ RightRole(p)) => Ok(p)
           /\ (RightPassword(p) /\ ~RightRole(p)) => Failed(p, ErrInvalidRole)
           /\ ~RightPassword(p) => Failed(p, ErrInvalidCredentials)

(* C6, amended: the role is checked before the password: another role than  *)
(* the stored one fails with RoleMismatch whatever the password; with the   *)
(* stored role the right password succeeds and a wrong one fails with       *)
(* InvalidCredentials.  (Spec)                                              *)
C6_Login ==
    \A p \in Procs :
        PasswordLogin(p)
        => /\ (RightPassword(p) /\ RightRole(p)) => Ok(p)
           /\ ~RightRole(p) => Failed(p, ErrInvalidRole)
           /\ (~RightPassword(p) /\ RightRole(p)) => Failed(p, ErrInvalidCredentials)

\* a wrong password with the stored role, refused as InvalidCredentials
C6_Witness ==
    \E p \in Procs :
        /\ PasswordLogin(p)
        /\ ~RightPassword(p) /\ RightRole(p)
        /\ Failed(p, ErrInvalidCredentials)

-----------------------------------------------------------------------------
(* C7: the step in which a login fails with "Invalid role for this account" *)
(* changes no table, and the call has issued no token and written nothing   *)
(* before it.  (Spec)                                                       *)
C7_RoleMismatchWritesNothing ==
    [][\A p \in Procs :
          ( /\ pc[p] # "done" /\ pc'[p] = "done"
            /\ loc'[p].op = "login"
            /\ loc'[p].error = ErrInvalidRole )
          => /\ users' = users
             /\ refreshTokens' = refreshTokens
             /\ providerAccounts' = providerAccounts
             /\ minted' = minted
             /\ loc'[p].uw = 0 /\ loc'[p].tw = 0
             /\ loc'[p].newTok = NoToken /\ loc'[p].access = NoToken]_vars

\* the right password of a CUSTOMER account, presented with role MERCHANT
C7_Witness ==
    \E p \in Procs :
        /\ PasswordLogin(p)
        /\ RightPassword(p)
        /\ loc[p].role = "MERCHANT"
        /\ users[UserOf(loc[p].email)].role = "CUSTOMER"
        /\ Failed(p, ErrInvalidRole)

-----------------------------------------------------------------------------
\* a finished login against an account that has no password hash
OAuthOnlyLogin(p) ==
    /\ Done(p, "login")
    /\ UserOf(loc[p].email) # 0
    /\ users[UserOf(loc[p].email)].passwordHash = NullHash

(* C8, as stated: a password login against an account without a password   *)
(* hash fails with OAuthAccountRequired and issues no tokens.  (Spec)       *)
C8_AsStated ==
    \A p \in Procs :
        OAuthOnlyLogin(p)
        => /\ loc[p].status = "err"
           /\ ErrorKind(loc[p].error) = "OAuthAccountRequired"
           /\ loc[p].newTok = NoToken

(* C8, amended: such a login issues no tokens; it fails with                *)
(* OAuthAccountRequired when the requested role is the stored one and with  *)
(* RoleMismatch when it is not.  (Spec)                                     *)
C8_OAuthOnly ==
    \A p \in Procs :
        OAuthOnlyLogin(p)
        => /\ RightRole(p) => Failed(p, ErrOAuthRequired)
           /\ ~RightRole(p) => Failed(p, ErrInvalidRole)
           /\ ErrorKind(loc[p].error) # "InvalidCredentials"
           /\ loc[p].tw = 0 /\ loc[p].uw = 0
           /\ loc[p].newTok = NoToken /\ loc[p].access = NoToken

\* an account created by googleAuth, logged into with a password and its role
C8_Witness ==
    \E p \in Procs :
        /\ OAuthOnlyLogin(p)
        /\ RightRole(p)
        /\ Failed(p, ErrOAuthRequired)
        /\ providerAccounts # <<>>

-----------------------------------------------------------------------------
(* C9: logout never fails, and a logout whose token matches no row, or one  *)
(* whose row is already revoked, changes no table.  (Spec)                  *)
C9_LogoutIdempotent ==
    /\ [](\A p \in Procs : Done(p, "logout") => Ok(p))
    /\ [][\A p \in Procs :
            ( /\ pc[p] = "logout_update" /\ pc'[p] = "done"
              /\ loc[p].pre \in {"unknown", "revoked", "rotated", "forcedOut"} )
            => /\ users' = users
               /\ refreshTokens' = refreshTokens
               /\ providerAccounts' = providerAccounts]_vars

\* the second logout with the same token has returned
C9_Witness ==
    \E p \in Procs :
        /\ Done(p, "logout") /\ Ok(p)
        /\ loc[p].pre = "revoked"
        /\ loc[p].tw = 0
        /\ FindTokenByHash(refreshTokens, hashRefreshToken(loc[p].token)) # 0

-----------------------------------------------------------------------------
\* a finished refresh whose token passed verifyRefreshToken
VerifiedRefresh(p) == Done(p, "refresh") /\ verifyRefreshToken(loc[p].token, now)
NoRow(p) == loc[p].rid = 0
RowRevoked(p) == loc[p].rid # 0 /\ loc[p].pre \in {"revoked", "rotated", "forcedOut"}
RowExpired(p) ==
    /\ loc[p].rid # 0
    /\ loc[p].pre \in {"active", "successor"}
    /\ refreshTokens[loc[p].rid].expiresAt < now

-----------------------------------------------------------------------------
\* tokens of one type that generateTokenPair has returned
Issued(type) == {tok \in minted : tok.type = type}

(* C11: an unexpired access token issued for a user verifies as an access   *)
(* token and the payload carries that user's id, email and role; an issued  *)
(* access token presented to refreshToken, and an issued refresh token      *)
(* presented to authenticate, fail with an InvalidToken error before any    *)
(* row is read, whether or not the two secrets differ.  (SpecCodec)         *)
C11_RoundTripAndTypes ==
    \A p \in Procs :
        /\ ( Done(p, "getProfile") /\ loc[p].token \in Issued("access")
             /\ now < loc[p].token.exp )
           => /\ Ok(p)
              /\ loc[p].payload.userId \in 1..Len(users)
              /\ loc[p].payload.email = users[loc[p].payload.userId].email
              /\ loc[p].payload.role = users[loc[p].payload.userId].role
              /\ loc[p].result.id = loc[p].payload.userId
        /\ (Done(p, "getProfile") /\ loc[p].token \in Issued("refresh"))
           => /\ loc[p].status = "err"
              /\ ErrorKind(loc[p].error) = "InvalidToken"
              /\ loc[p].payload = NoPayload /\ loc[p].user = NoUser
        /\ (Done(p, "refresh") /\ loc[p].token \in Issued("access"))
           => /\ loc[p].status = "err"
              /\ ErrorKind(loc[p].error) = "InvalidToken"
              /\ loc[p].rid = 0 /\ loc[p].tw = 0

\* an issued refresh token, signed with the secret the access tokens are
\* signed with, has been presented to authenticate
C11_Witness ==
    \E p \in Procs :
        /\ Done(p, "getProfile")
        /\ loc[p].token \in Issued("refresh")
        /\ loc[p].token.key = JWT_ACCESS_SECRET
        /\ now < loc[p].token.exp
        /\ Issued("access") # {}

-----------------------------------------------------------------------------
(* C12: a googleAuth call in which the provider reported email_verified =   *)
(* false fails with "Google email must be verified" and has written no      *)
(* users, provider_accounts or refresh_tokens row.  (Spec)                  *)
C12_UnverifiedEmailRejected ==
    \A p \in Procs :
        (loc[p].op = "googleAuth" /\ loc[p].verified = "false")
        => /\ pc[p] = "done"
           /\ loc[p].status = "err"
           /\ ErrorKind(loc[p].error) = "EmailNotVerified"
           /\ loc[p].uw = 0 /\ loc[p].aw = 0 /\ loc[p].tw = 0
           /\ loc[p].newTok = NoToken

\* the provider reported an unverified address while rows exist that a
\* write could have touched
C12_Witness ==
    \E p \in Procs :
        /\ Done(p, "googleAuth") /\ loc[p].verified = "false"
        /\ loc[p].pre = "registered"
        /\ providerAccounts # <<>>

-----------------------------------------------------------------------------
\* a googleAuth call that found a users row whose role is not the role of the state
GoogleRoleClash(p) ==
    /\ loc[p].op = "googleAuth"
    /\ loc[p].uid \in 1..Len(users)
    /\ users[loc[p].uid].role # loc[p].role

(* C13: a googleAuth call that finds a users row for the provider's e-mail  *)
(* with another role than the state's fails with "Invalid role for this     *)
(* account", creates or updates no provider_accounts row, updates no users  *)
(* row and issues no tokens.  (Spec)                                        *)
C13_GoogleRoleMismatch ==
    \A p \in Procs :
        GoogleRoleClash(p)
        => /\ pc[p] = "done"
           /\ Failed(p, ErrInvalidRole)
           /\ ErrorKind(loc[p].error) = "RoleMismatch"
           /\ loc[p].aw = 0 /\ loc[p].uw = 0 /\ loc[p].tw = 0
           /\ loc[p].newTok = NoToken /\ loc[p].access = NoToken

\* the clash happened on an account that already has a Google provider account
C13_Witness ==
    \E p \in Procs :
        /\ GoogleRoleClash(p)
        /\ pc[p] = "done"
        /\ GoogleAccountsOf(providerAccounts, loc[p].uid) # {}

-----------------------------------------------------------------------------
\* a googleAuth call that returned, for an address no users row named when it began
GoogleSignUp(p) == Done(p, "googleAuth") /\ Ok(p) /\ loc[p].pre = "fresh"

RowsOfUser(rows, uid) == {i \in 1..Len(rows) : rows[i].userId = uid}

-----------------------------------------------------------------------------
(* C15: no two provider_accounts rows share (provider, providerAccountId),  *)
(* so no external identity is linked to two users.  (Spec)                  *)
C15_ProviderIdentityUnique ==
    \A a, b \in 1..Len(providerAccounts) :
        ( /\ providerAccounts[a].provider = providerAccounts[b].provider
          /\ providerAccounts[a].providerAccountId = providerAccounts[b].providerAccountId )
        => a = b

\* a googleAuth call presented an identity that another user's row holds,
\* and was refused by the unique index
C15_Witness ==
    \E p \in Procs :
        /\ Done(p, "googleAuth")
        /\ Failed(p, ErrUniqueConstraint)
        /\ \E a \in 1..Len(providerAccounts) :
              /\ providerAccounts[a].providerAccountId = loc[p].sub
              /\ users[providerAccounts[a].userId].email # ToLowerCase(loc[p].email)

-----------------------------------------------------------------------------
(* C16: a googleAuth call succeeds only with a state that                   *)
(* generateGoogleAuthUrl issued and that no earlier googleAuth call has     *)
(* accepted: a state is consumed once, and a state never issued is          *)
(* refused.  (SpecOAuth)                                                    *)
C16_StateConsumedOnce ==
    \A p \in Procs :
        (Done(p, "googleAuth") /\ Ok(p)) => loc[p].statePre = "issued"

-----------------------------------------------------------------------------
(* C17: no step of register, login, googleAuth, refreshToken, logout,       *)
(* logoutAll or getProfile removes a users row or changes its role.  (Spec) *)
C17_RoleImmutable ==
    [][\A i \in 1..Len(users) :
          i <= Len(users') /\ users'[i].role = users[i].role]_vars

\* a users row has been written again after its creation (lastLoginAt set) and
\* a call asking for another role than the stored one has ended
C17_Witness ==
    \E p \in Procs, i \in 1..Len(users) :
        /\ pc[p] = "done"
        /\ loc[p].op \in {"login", "googleAuth"}
        /\ loc[p].uid = i
        /\ loc[p].role # users[i].role
        /\ users[i].lastLoginAt # NullTime

-----------------------------------------------------------------------------
(* C18: every refresh_tokens row holds in tokenHash the SHA-256 hash of one *)
(* refresh token issued for the row's user, and never the token itself;     *)
(* tokenHash is the only column written from a token.  (Spec)               *)
C18_OnlyHashStored ==
    \A i \in 1..Len(refreshTokens) :
        /\ \E tok \in Issued("refresh") :
              /\ refreshTokens[i].tokenHash = [sha256 |-> tok]
              /\ refreshTokens[i].userId = tok.userId
        /\ refreshTokens[i].tokenHash \notin minted

\* the table is full, with a row written by googleAuth and a revoked row
C18_Witness ==
    /\ Len(refreshTokens) = MaxTokens
    /\ \E i \in 1..Len(refreshTokens) :
          users[refreshTokens[i].userId].passwordHash = NullHash
    /\ \E i \in 1..Len(refreshTokens) : refreshTokens[i].isRevoked

-----------------------------------------------------------------------------
\* the operations that return a user object
Returning == {"register", "login", "googleAuth", "refresh", "getProfile"}

(* C19: the user object that register, login, googleAuth, refreshToken or   *)
(* getProfile returns names the user of the call and has no passwordHash    *)
(* field.  (Spec)                                                           *)
C19_NoPasswordHashReturned ==
    \A p \in Procs :
        (pc[p] = "done" /\ Ok(p) /\ loc[p].op \in Returning)
        => /\ "passwordHash" \notin DOMAIN loc[p].result
           /\ loc[p].result.id = loc[p].uid
           /\ loc[p].result.email = users[loc[p].uid].email

\* getProfile has returned the profile of a user who has a password hash
C19_Witness ==
    \E p \in Procs :
        /\ Done(p, "getProfile") /\ Ok(p)
        /\ users[loc[p].uid].passwordHash # NullHash
        /\ users[loc[p].uid].lastLoginAt # NullTime

-----------------------------------------------------------------------------
-----------------------------------------------------------------------------
\* the ways a call to Google fails
ProviderFailures == {"exchange throws", "no access token", "profile throws"}

(* C21: a googleAuth call in which the code exchange throws, returns no     *)
(* access token, or the profile fetch throws, fails with an error of kind   *)
(* OAuthProviderError and has written no users, provider_accounts or        *)
(* refresh_tokens row and issued no token.  (Spec)                          *)
C21_ProviderFailure ==
    \A p \in Procs :
        (loc[p].op = "googleAuth" /\ loc[p].boundary \in ProviderFailures)
        => /\ pc[p] = "done"
           /\ loc[p].status = "err"
           /\ ErrorKind(loc[p].error) = "OAuthProviderError"
           /\ loc[p].uw = 0 /\ loc[p].aw = 0 /\ loc[p].tw = 0
           /\ loc[p].newTok = NoToken /\ loc[p].access = NoToken

\* Google returned tokens without an access_token to a callback for an address
\* that has a users row and a provider account
C21_Witness ==
    \E p \in Procs :
        /\ Done(p, "googleAuth") /\ loc[p].boundary = "no access token"
        /\ loc[p].pre = "registered"
        /\ providerAccounts # <<>>

-----------------------------------------------------------------------------
\* history: generateTokenPair returned tok together with a refresh token whose
\* row a logoutAll of the same user found active and revoked
IssuedBeforeForcedLogout(tok) ==
    \E i \in forcedOut :
        /\ refreshTokens[i].userId = tok.userId
        /\ refreshTokens[i].expiresAt = RecordExpiry(tok.iat)

(* C22: once logoutAll(u) has returned, an access token issued to u before  *)
(* the call is refused by authenticate.  (SpecForcedLogout)                 *)
C22_AccessTokenRevoked ==
    \A p \in Procs :
        ( /\ Done(p, "getProfile")
          /\ loc[p].token \in Issued("access")
          /\ IssuedBeforeForcedLogout(loc[p].token) )
        => loc[p].status = "err"

-----------------------------------------------------------------------------
\* the errors the claim names: a request body a schema rejected; a missing
\* route (notFoundHandler) or a missing record (Prisma P2025)
IsValidationError(e) == e.class = "ZodError"
IsNotFoundError(e) ==
    \/ e.class = "AppError" /\ e.statusCode = 404
    \/ e.class = "Error" /\ e.name = "PrismaClientKnownRequestError" /\ e.code = "P2025"

\* the response names the fields that were rejected
HasFieldDetail(r) ==
    /\ "details" \in DOMAIN r.body.error
    /\ "issues" \in DOMAIN r.body.error.details

(* C23: the response errorHandler sends has the body { success: false,      *)
(* error: { code, message } }; a validation error gets status 400 and the   *)
(* fields rejected, a not-found error 404, every other error 500 with the   *)
(* message "Internal Server Error"; details and stack are present only when *)
(* NODE_ENV is development.  (SpecErrors)                                   *)
C23_ErrorResponses ==
    \A p \in Procs :
        Done(p, "errorHandler")
        => LET e == loc[p].thrown
               r == loc[p].response
           IN /\ r.body.success = FALSE
              /\ {"code", "message"} \subseteq DOMAIN r.body.error
              /\ IsValidationError(e) => (r.status = 400 /\ HasFieldDetail(r))
              /\ IsNotFoundError(e) => r.status = 404
              /\ (~IsValidationError(e) /\ ~IsNotFoundError(e))
                 => (r.status = 500 /\ r.body.error.message = Text("Internal Server Error"))
              /\ (DOMAIN r.body.error \cap {"details", "stack"} # {})
                 => cfg.nodeEnv = "development"

-----------------------------------------------------------------------------
\* a finished refresh of a token whose row was not revoked when the call began
\* and whose expiresAt the clock has reached
RefreshAtOrPastExpiry(p) ==
    LET rid == FindTokenByHash(refreshTokens, hashRefreshToken(loc[p].token))
    IN /\ Done(p, "refresh")
       /\ rid # 0
       /\ loc[p].pre \in {"active", "successor"}
       /\ now >= refreshTokens[rid].expiresAt

(* C24: a refresh presented at an instant now >= expiresAt of its row, the  *)
(* instant now = expiresAt included, fails with TokenExpired, revokes       *)
(* nothing and issues no token.  (SpecTime)                                 *)
C24_ExpiredFromExpiresAt ==
    \A p \in Procs :
        RefreshAtOrPastExpiry(p)
        => /\ loc[p].status = "err"
           /\ ErrorKind(loc[p].error) = "TokenExpired"
           /\ loc[p].tw = 0
           /\ loc[p].newTok = NoToken

-----------------------------------------------------------------------------
(* C25: when a refreshToken() that had read its row as active before a      *)
(* logoutAll of the same user ran has returned after it, and both have      *)
(* finished, the user has no refresh_tokens row that is not revoked.        *)
(* (SpecRace)                                                               *)
C25_LogoutAllBeatsRotation ==
    \A p, q \in Procs :
        ( /\ Done(p, "logoutAll") /\ loc[p].racing # 0
          /\ Done(q, "refresh") /\ Ok(q) /\ loc[q].rid = loc[p].racing )
        => \A i \in ActiveRows : refreshTokens[i].userId # loc[p].uid

-----------------------------------------------------------------------------
\* the operations that create a refresh_tokens row
Issuing == {"register", "login", "googleAuth", "refresh"}

(* C26: when register, login, googleAuth or refreshToken returns, the       *)
(* refresh token whose hash the call stored in its new refresh_tokens row   *)
(* is among the tokens of the object returned.  (Spec)                      *)
C26_RawTokenReturned ==
    \A p \in Procs :
        ( /\ pc[p] = "done" /\ Ok(p) /\ loc[p].op \in Issuing
          /\ FindTokenByHash(refreshTokens, hashRefreshToken(loc[p].newTok)) # 0 )
        => loc[p].newTok \in loc[p].tokensOut

-----------------------------------------------------------------------------
(* C27: whatever REFRESH_TOKEN_TTL_DAYS is configured, the expiresAt of a   *)
(* refresh_tokens row is the exp signed into the token whose hash the row   *)
(* holds.  (SpecTime)                                                       *)
C27_RowExpiryIsTokenExpiry ==
    \A tok \in Issued("refresh") :
        LET rid == FindTokenByHash(refreshTokens, hashRefreshToken(tok))
        IN rid # 0 => refreshTokens[rid].expiresAt = tok.exp

-----------------------------------------------------------------------------
\* two finished register calls for one normalised e-mail that no users row
\* named when either began
RacingRegisters(p, q) ==
    /\ p # q
    /\ Done(p, "register") /\ Done(q, "register")
    /\ ToLowerCase(loc[p].email) = ToLowerCase(loc[q].email)
    /\ loc[p].pre = "fresh" /\ loc[q].pre = "fresh"

(* C28: of two overlapping register calls for one normalised e-mail, one    *)
(* succeeds and the other fails with DuplicateUser having written nothing;  *)
(* one users row names the e-mail and one refresh_tokens row belongs to     *)
(* it.  (SpecRace)                                                          *)
C28_ConcurrentRegister ==
    \A p, q \in Procs :
        RacingRegisters(p, q)
        => /\ Ok(p) # Ok(q)
           /\ \A l \in {p, q} :
                 ~Ok(l) => /\ loc[l].status = "err"
                           /\ ErrorKind(loc[l].error) = "DuplicateUser"
                           /\ loc[l].uw = 0 /\ loc[l].tw = 0
           /\ Cardinality({i \in 1..Len(users) :
                               users[i].email = ToLowerCase(loc[p].email)}) = 1
           /\ Cardinality(RowsOfUser(refreshTokens,
                                     FindUserByEmail(users, ToLowerCase(loc[p].email)))) = 1

-----------------------------------------------------------------------------
(* C29: no step of updateMultiStopOrder, deleteMultiStopOrder or            *)
(* submitMultiStopOrder changes or deletes a multi-stop order whose status  *)
(* is SUBMITTED, whether the requests run one after another or overlap.     *)
(* (SpecPlans)                                                              *)
C29_SubmittedIsFrozen ==
    [][\A i \in 1..Len(multiStopOrders) :
          (multiStopOrders[i].exists /\ multiStopOrders[i].status = "SUBMITTED")
          => multiStopOrders'[i] = multiStopOrders[i]]_vars

-----------------------------------------------------------------------------
\* a rateOrder call that was answered 200
Rated(p) == Done(p, "rateOrder") /\ loc[p].response.status = 200

(* C30: a customerRating that is stored is never written again, an order    *)
(* that holds one is DELIVERED, and no two rateOrder calls on one order are *)
(* both answered 200, whether they run one after another or overlap.        *)
(* (SpecRating)                                                             *)
C30_RatedOnce ==
    /\ [](\A i \in 1..Len(orders) :
            orders[i].customerRating # NullRating => orders[i].status = "DELIVERED")
    /\ [](\A p, q \in Procs :
            (p # q /\ Rated(p) /\ Rated(q)) => loc[p].orderId # loc[q].orderId)
    /\ [][\A i \in 1..Len(orders) :
            orders[i].customerRating # NullRating
            => orders'[i].customerRating = orders[i].customerRating]_vars

====
